---- MODULE Spec2Model ----
(***************************************************************************)
(* ATS resume checker: the scoring and classification engine, the          *)
(* candidate e-mail store, the JSON logs and the upload requests.          *)
(*                                                                         *)
(* Strings are sequences of one-character strings, so that lower(), the    *)
(* substring search, split() and strip() are computed as Python computes   *)
(* them; a character outside ASCII is written by its code point, "U+2022"  *)
(* for the bullet.  Python floats are modelled by exact rationals          *)
(* [num, den]; where the code rounds to one decimal, the result is kept in *)
(* tenths and a tie (a value exactly half-way between two tenths) may      *)
(* round either way, because the binary float nearest to such a value      *)
(* decides it.                                                             *)
(***************************************************************************)
EXTENDS Integers, Sequences, FiniteSets, TLC

VARIABLES
  pc,       \* "idle" between calls, "done" when a call has returned
  op,       \* the function called last
  arg,      \* its arguments
  res,      \* what it returned
  config,   \* the mutable module globals of config.py that ATSChecker reads
  checker,  \* the ATSChecker instance, once constructed
  agent,    \* the IntelligentATSAgent instance of app.py
  candidate_emails,  \* the content of data/candidate_emails.json
  logs,     \* the content of data/resume_submissions.json and analysis_results.json
  requests, \* the upload requests: where each one is in upload_file, and its locals
  threaded  \* whether the server handles requests in concurrent threads

\* what the upload requests read and write: the files under data/ and their own locals
server == <<candidate_emails, logs, requests, threaded>>

vars == <<pc, op, arg, res, config, checker, agent, server>>

\* no value: no call made yet, no instance constructed yet
NoRes == [none |-> TRUE]

----------------------------------------------------------------------------
(* Characters and strings                                                  *)

LowerOf ==
  ("A" :> "a") @@ ("B" :> "b") @@ ("C" :> "c") @@ ("D" :> "d") @@ ("E" :> "e") @@
  ("F" :> "f") @@ ("G" :> "g") @@ ("H" :> "h") @@ ("I" :> "i") @@ ("J" :> "j") @@
  ("K" :> "k") @@ ("L" :> "l") @@ ("M" :> "m") @@ ("N" :> "n") @@ ("O" :> "o") @@
  ("P" :> "p") @@ ("Q" :> "q") @@ ("R" :> "r") @@ ("S" :> "s") @@ ("T" :> "t") @@
  ("U" :> "u") @@ ("V" :> "v") @@ ("W" :> "w") @@ ("X" :> "x") @@ ("Y" :> "y") @@
  ("Z" :> "z")

UpperChars == DOMAIN LowerOf

LowerChars == {LowerOf[c] : c \in UpperChars}

DigitChars == {"0", "1", "2", "3", "4", "5", "6", "7", "8", "9"}

SpaceChars == {" ", "\t", "\n", "\r", "\f"}

\* str.lower() on one character
LowerChar(c) == IF c \in UpperChars THEN LowerOf[c] ELSE c

\* str.lower()  (\o <<>> makes the result a sequence computed once)
Lower(s) == [i \in 1..Len(s) |-> LowerChar(s[i])] \o <<>>

\* s occurs in t at position i
OccursAt(s, t, i) ==
  /\ i + Len(s) - 1 <= Len(t)
  /\ \A j \in 1..Len(s) : t[i + j - 1] = s[j]

\* Python's  s in t  for strings
Contains(t, s) == \E i \in 1..(Len(t) - Len(s) + 1) : OccursAt(s, t, i)

\* Python's  x in lst  for lists
InList(x, lst) == \E i \in 1..Len(lst) : lst[i] = x

RECURSIVE FirstNonSpace(_, _)
\* the first index at or after i that holds no whitespace (Len(s) + 1 if none)
FirstNonSpace(s, i) ==
  IF i > Len(s) \/ s[i] \notin SpaceChars THEN i ELSE FirstNonSpace(s, i + 1)

RECURSIVE LastNonSpace(_, _)
\* the last index at or before i that holds no whitespace (0 if none)
LastNonSpace(s, i) ==
  IF i < 1 \/ s[i] \notin SpaceChars THEN i ELSE LastNonSpace(s, i - 1)

\* str.strip()
Strip(s) == SubSeq(s, FirstNonSpace(s, 1), LastNonSpace(s, Len(s)))

\* len(s.split()): the number of maximal runs of non-whitespace
WordCount(s) ==
  Cardinality({i \in 1..Len(s) :
                 s[i] \notin SpaceChars /\ (i = 1 \/ s[i - 1] \in SpaceChars)})

\* the first index where s holds the character c (0 if none)
IndexOf(s, c) ==
  LET at == {i \in 1..Len(s) : s[i] = c}
  IN  IF at = {} THEN 0 ELSE CHOOSE i \in at : \A j \in at : i <= j

RECURSIVE Split(_, _)
\* s.split(c) for a one-character separator c
Split(s, c) ==
  LET i == IndexOf(s, c)
  IN  IF i = 0 THEN <<s>>
      ELSE <<SubSeq(s, 1, i - 1)>> \o Split(SubSeq(s, i + 1, Len(s)), c)

\* the characters the regular expression class \w matches
WordChars == UpperChars \cup LowerChars \cup DigitChars \cup {"_"}

\* the number of characters of s that are in the set chars
CountIn(s, chars) == Cardinality({i \in 1..Len(s) : s[i] \in chars})

\* Python's None where a string is expected: a value that is no string
None == <<"None">>

\* bool(v) for v a string or None
Truthy(v) == v # None /\ v # <<>>

\* a message: its fixed text and the values formatted into it
Msg(text) == [text |-> text, args |-> <<>>]

MsgOf(text, args) == [text |-> text, args |-> args]

----------------------------------------------------------------------------
(* Exact rationals standing for Python floats                              *)

RECURSIVE GCD(_, _)
GCD(a, b) == IF b = 0 THEN a ELSE GCD(b, a % b)

Rat(n, d) == LET g == GCD(n, d) IN [num |-> n \div g, den |-> d \div g]

RInt(i) == [num |-> i, den |-> 1]

RAdd(a, b) == Rat(a.num * b.den + b.num * a.den, a.den * b.den)

\* a * k / m
RScale(a, k, m) == Rat(a.num * k, a.den * m)

RGeq(a, b) == a.num * b.den >= b.num * a.den

RLess(a, b) == ~RGeq(a, b)

RMin(a, b) == IF RGeq(a, b) THEN b ELSE a

\* round(x, 1), in tenths: the tenths nearest to x; both neighbours on a tie
Round1(x) ==
  LET lo == (10 * x.num) \div x.den
      twice == 2 * ((10 * x.num) % x.den)
  IN  IF twice < x.den THEN {lo}
      ELSE IF twice > x.den THEN {lo + 1}
      ELSE {lo, lo + 1}

\* a value kept in tenths, as a rational
Tenths(t) == Rat(t, 10)

----------------------------------------------------------------------------
(* config.py                                                               *)

ATS_THRESHOLDS == [excellent |-> 85, good |-> 70, average |-> 55, poor |-> 40]

ATS_CRITERIA_WEIGHTS ==
  << [criterion |-> "format_compatibility", weight |-> 25],
     [criterion |-> "keyword_matching", weight |-> 30],
     [criterion |-> "readability", weight |-> 20],
     [criterion |-> "structure_organization", weight |-> 15],
     [criterion |-> "contact_information", weight |-> 10] >>

COMPANY_JOB_REQUIREMENTS == <<
  [name |-> <<"s","o","f","t","w","a","r","e","_","e","n","g","i","n","e","e","r">>,
   required_keywords |-> <<
    <<"p","y","t","h","o","n">>,  \* 'python'
    <<"j","a","v","a">>,  \* 'java'
    <<"j","a","v","a","s","c","r","i","p","t">>,  \* 'javascript'
    <<"r","e","a","c","t">>,  \* 'react'
    <<"n","o","d","e",".","j","s">>,  \* 'node.js'
    <<"s","q","l">>,  \* 'sql'
    <<"g","i","t">>,  \* 'git'
    <<"a","p","i">>,  \* 'api'
    <<"d","a","t","a","b","a","s","e">>,  \* 'database'
    <<"a","g","i","l","e">>,  \* 'agile'
    <<"s","c","r","u","m">>,  \* 'scrum'
    <<"d","o","c","k","e","r">>,  \* 'docker'
    <<"a","w","s">>,  \* 'aws'
    <<"c","l","o","u","d">>   \* 'cloud'
  >>,
   preferred_keywords |-> <<
    <<"m","a","c","h","i","n","e"," ","l","e","a","r","n","i","n","g">>,  \* 'machine learning'
    <<"d","a","t","a"," ","s","t","r","u","c","t","u","r","e","s">>,  \* 'data structures'
    <<"a","l","g","o","r","i","t","h","m","s">>,  \* 'algorithms'
    <<"t","e","s","t","i","n","g">>,  \* 'testing'
    <<"m","i","c","r","o","s","e","r","v","i","c","e","s">>,  \* 'microservices'
    <<"k","u","b","e","r","n","e","t","e","s">>,  \* 'kubernetes'
    <<"c","i","/","c","d">>,  \* 'ci/cd'
    <<"d","e","v","o","p","s">>   \* 'devops'
  >>,
   minimum_experience |-> 2,
   required_education |-> <<
    <<"b","a","c","h","e","l","o","r">>,  \* 'bachelor'
    <<"c","o","m","p","u","t","e","r"," ","s","c","i","e","n","c","e">>,  \* 'computer science'
    <<"e","n","g","i","n","e","e","r","i","n","g">>   \* 'engineering'
  >>,
   minimum_ats_score |-> 75],
  [name |-> <<"d","a","t","a","_","s","c","i","e","n","t","i","s","t">>,
   required_keywords |-> <<
    <<"p","y","t","h","o","n">>,  \* 'python'
    <<"r">>,  \* 'r'
    <<"s","q","l">>,  \* 'sql'
    <<"m","a","c","h","i","n","e"," ","l","e","a","r","n","i","n","g">>,  \* 'machine learning'
    <<"s","t","a","t","i","s","t","i","c","s">>,  \* 'statistics'
    <<"d","a","t","a"," ","a","n","a","l","y","s","i","s">>,  \* 'data analysis'
    <<"p","a","n","d","a","s">>,  \* 'pandas'
    <<"n","u","m","p","y">>,  \* 'numpy'
    <<"s","c","i","k","i","t","-","l","e","a","r","n">>   \* 'scikit-learn'
  >>,
   preferred_keywords |-> <<
    <<"d","e","e","p"," ","l","e","a","r","n","i","n","g">>,  \* 'deep learning'
    <<"t","e","n","s","o","r","f","l","o","w">>,  \* 'tensorflow'
    <<"p","y","t","o","r","c","h">>,  \* 'pytorch'
    <<"m","a","t","p","l","o","t","l","i","b">>,  \* 'matplotlib'
    <<"b","i","g"," ","d","a","t","a">>,  \* 'big data'
    <<"h","a","d","o","o","p">>,  \* 'hadoop'
    <<"s","p","a","r","k">>,  \* 'spark'
    <<"t","a","b","l","e","a","u">>,  \* 'tableau'
    <<"p","o","w","e","r"," ","b","i">>   \* 'power bi'
  >>,
   minimum_experience |-> 1,
   required_education |-> <<
    <<"b","a","c","h","e","l","o","r">>,  \* 'bachelor'
    <<"m","a","s","t","e","r">>,  \* 'master'
    <<"s","t","a","t","i","s","t","i","c","s">>,  \* 'statistics'
    <<"m","a","t","h","e","m","a","t","i","c","s">>,  \* 'mathematics'
    <<"c","o","m","p","u","t","e","r"," ","s","c","i","e","n","c","e">>   \* 'computer science'
  >>,
   minimum_ats_score |-> 70],
  [name |-> <<"m","a","r","k","e","t","i","n","g","_","s","p","e","c","i","a","l","i","s","t">>,
   required_keywords |-> <<
    <<"d","i","g","i","t","a","l"," ","m","a","r","k","e","t","i","n","g">>,  \* 'digital marketing'
    <<"s","e","o">>,  \* 'seo'
    <<"s","o","c","i","a","l"," ","m","e","d","i","a">>,  \* 'social media'
    <<"c","o","n","t","e","n","t"," ","m","a","r","k","e","t","i","n","g">>,  \* 'content marketing'
    <<"c","a","m","p","a","i","g","n"," ","m","a","n","a","g","e","m","e","n","t">>,  \* 'campaign management'
    <<"b","r","a","n","d"," ","m","a","n","a","g","e","m","e","n","t">>,  \* 'brand management'
    <<"m","a","r","k","e","t"," ","r","e","s","e","a","r","c","h">>   \* 'market research'
  >>,
   preferred_keywords |-> <<
    <<"g","o","o","g","l","e"," ","a","n","a","l","y","t","i","c","s">>,  \* 'google analytics'
    <<"f","a","c","e","b","o","o","k"," ","a","d","s">>,  \* 'facebook ads'
    <<"e","m","a","i","l"," ","m","a","r","k","e","t","i","n","g">>,  \* 'email marketing'
    <<"c","o","n","v","e","r","s","i","o","n"," ","o","p","t","i","m","i","z","a","t","i","o","n">>,  \* 'conversion optimization'
    <<"a","/","b"," ","t","e","s","t","i","n","g">>,  \* 'a/b testing'
    <<"r","o","i"," ","a","n","a","l","y","s","i","s">>   \* 'roi analysis'
  >>,
   minimum_experience |-> 1,
   required_education |-> <<
    <<"b","a","c","h","e","l","o","r">>,  \* 'bachelor'
    <<"m","a","r","k","e","t","i","n","g">>,  \* 'marketing'
    <<"c","o","m","m","u","n","i","c","a","t","i","o","n","s">>,  \* 'communications'
    <<"b","u","s","i","n","e","s","s">>   \* 'business'
  >>,
   minimum_ats_score |-> 65],
  [name |-> <<"p","r","o","j","e","c","t","_","m","a","n","a","g","e","r">>,
   required_keywords |-> <<
    <<"p","r","o","j","e","c","t"," ","m","a","n","a","g","e","m","e","n","t">>,  \* 'project management'
    <<"a","g","i","l","e">>,  \* 'agile'
    <<"s","c","r","u","m">>,  \* 'scrum'
    <<"s","t","a","k","e","h","o","l","d","e","r"," ","m","a","n","a","g","e","m","e","n","t">>,  \* 'stakeholder management'
    <<"b","u","d","g","e","t"," ","m","a","n","a","g","e","m","e","n","t">>,  \* 'budget management'
    <<"t","e","a","m"," ","l","e","a","d","e","r","s","h","i","p">>,  \* 'team leadership'
    <<"p","l","a","n","n","i","n","g">>,  \* 'planning'
    <<"e","x","e","c","u","t","i","o","n">>   \* 'execution'
  >>,
   preferred_keywords |-> <<
    <<"p","m","p">>,  \* 'pmp'
    <<"k","a","n","b","a","n">>,  \* 'kanban'
    <<"r","i","s","k"," ","m","a","n","a","g","e","m","e","n","t">>,  \* 'risk management'
    <<"d","e","l","i","v","e","r","a","b","l","e","s">>,  \* 'deliverables'
    <<"c","o","m","m","u","n","i","c","a","t","i","o","n">>,  \* 'communication'
    <<"t","i","m","e","l","i","n","e"," ","m","a","n","a","g","e","m","e","n","t">>,  \* 'timeline management'
    <<"p","r","i","n","c","e","2">>   \* 'prince2'
  >>,
   minimum_experience |-> 3,
   required_education |-> <<
    <<"b","a","c","h","e","l","o","r">>,  \* 'bachelor'
    <<"p","r","o","j","e","c","t"," ","m","a","n","a","g","e","m","e","n","t">>,  \* 'project management'
    <<"b","u","s","i","n","e","s","s">>,  \* 'business'
    <<"e","n","g","i","n","e","e","r","i","n","g">>   \* 'engineering'
  >>,
   minimum_ats_score |-> 70]
  >>

COMPANY_HIRING_CRITERIA ==
  [ats_compatibility |-> 30, keyword_relevance |-> 25, experience_level |-> 20,
   education_background |-> 15, skills_match |-> 10]

JOB_KEYWORDS == <<
  [name |-> <<"s","o","f","t","w","a","r","e","_","e","n","g","i","n","e","e","r">>, keywords |-> <<
    <<"p","y","t","h","o","n">>,  \* 'python'
    <<"j","a","v","a">>,  \* 'java'
    <<"j","a","v","a","s","c","r","i","p","t">>,  \* 'javascript'
    <<"r","e","a","c","t">>,  \* 'react'
    <<"n","o","d","e",".","j","s">>,  \* 'node.js'
    <<"s","q","l">>,  \* 'sql'
    <<"g","i","t">>,  \* 'git'
    <<"a","p","i">>,  \* 'api'
    <<"d","a","t","a","b","a","s","e">>,  \* 'database'
    <<"a","g","i","l","e">>,  \* 'agile'
    <<"s","c","r","u","m">>,  \* 'scrum'
    <<"d","o","c","k","e","r">>,  \* 'docker'
    <<"a","w","s">>,  \* 'aws'
    <<"c","l","o","u","d">>,  \* 'cloud'
    <<"m","a","c","h","i","n","e"," ","l","e","a","r","n","i","n","g">>,  \* 'machine learning'
    <<"d","a","t","a"," ","s","t","r","u","c","t","u","r","e","s">>,  \* 'data structures'
    <<"a","l","g","o","r","i","t","h","m","s">>,  \* 'algorithms'
    <<"t","e","s","t","i","n","g">>   \* 'testing'
  >>],
  [name |-> <<"d","a","t","a","_","s","c","i","e","n","t","i","s","t">>, keywords |-> <<
    <<"p","y","t","h","o","n">>,  \* 'python'
    <<"r">>,  \* 'r'
    <<"s","q","l">>,  \* 'sql'
    <<"m","a","c","h","i","n","e"," ","l","e","a","r","n","i","n","g">>,  \* 'machine learning'
    <<"d","e","e","p"," ","l","e","a","r","n","i","n","g">>,  \* 'deep learning'
    <<"t","e","n","s","o","r","f","l","o","w">>,  \* 'tensorflow'
    <<"p","y","t","o","r","c","h">>,  \* 'pytorch'
    <<"p","a","n","d","a","s">>,  \* 'pandas'
    <<"n","u","m","p","y">>,  \* 'numpy'
    <<"m","a","t","p","l","o","t","l","i","b">>,  \* 'matplotlib'
    <<"s","c","i","k","i","t","-","l","e","a","r","n">>,  \* 'scikit-learn'
    <<"s","t","a","t","i","s","t","i","c","s">>,  \* 'statistics'
    <<"d","a","t","a"," ","a","n","a","l","y","s","i","s">>,  \* 'data analysis'
    <<"d","a","t","a"," ","v","i","s","u","a","l","i","z","a","t","i","o","n">>,  \* 'data visualization'
    <<"b","i","g"," ","d","a","t","a">>,  \* 'big data'
    <<"h","a","d","o","o","p">>,  \* 'hadoop'
    <<"s","p","a","r","k">>   \* 'spark'
  >>],
  [name |-> <<"m","a","r","k","e","t","i","n","g">>, keywords |-> <<
    <<"d","i","g","i","t","a","l"," ","m","a","r","k","e","t","i","n","g">>,  \* 'digital marketing'
    <<"s","e","o">>,  \* 'seo'
    <<"s","e","m">>,  \* 'sem'
    <<"s","o","c","i","a","l"," ","m","e","d","i","a">>,  \* 'social media'
    <<"c","o","n","t","e","n","t"," ","m","a","r","k","e","t","i","n","g">>,  \* 'content marketing'
    <<"g","o","o","g","l","e"," ","a","n","a","l","y","t","i","c","s">>,  \* 'google analytics'
    <<"f","a","c","e","b","o","o","k"," ","a","d","s">>,  \* 'facebook ads'
    <<"e","m","a","i","l"," ","m","a","r","k","e","t","i","n","g">>,  \* 'email marketing'
    <<"c","a","m","p","a","i","g","n"," ","m","a","n","a","g","e","m","e","n","t">>,  \* 'campaign management'
    <<"b","r","a","n","d"," ","m","a","n","a","g","e","m","e","n","t">>,  \* 'brand management'
    <<"m","a","r","k","e","t"," ","r","e","s","e","a","r","c","h">>,  \* 'market research'
    <<"r","o","i">>,  \* 'roi'
    <<"c","o","n","v","e","r","s","i","o","n"," ","o","p","t","i","m","i","z","a","t","i","o","n">>   \* 'conversion optimization'
  >>],
  [name |-> <<"p","r","o","j","e","c","t","_","m","a","n","a","g","e","r">>, keywords |-> <<
    <<"p","r","o","j","e","c","t"," ","m","a","n","a","g","e","m","e","n","t">>,  \* 'project management'
    <<"a","g","i","l","e">>,  \* 'agile'
    <<"s","c","r","u","m">>,  \* 'scrum'
    <<"k","a","n","b","a","n">>,  \* 'kanban'
    <<"p","m","p">>,  \* 'pmp'
    <<"r","i","s","k"," ","m","a","n","a","g","e","m","e","n","t">>,  \* 'risk management'
    <<"s","t","a","k","e","h","o","l","d","e","r"," ","m","a","n","a","g","e","m","e","n","t">>,  \* 'stakeholder management'
    <<"b","u","d","g","e","t"," ","m","a","n","a","g","e","m","e","n","t">>,  \* 'budget management'
    <<"t","i","m","e","l","i","n","e">>,  \* 'timeline'
    <<"d","e","l","i","v","e","r","a","b","l","e","s">>,  \* 'deliverables'
    <<"t","e","a","m"," ","l","e","a","d","e","r","s","h","i","p">>,  \* 'team leadership'
    <<"c","o","m","m","u","n","i","c","a","t","i","o","n">>,  \* 'communication'
    <<"p","l","a","n","n","i","n","g">>,  \* 'planning'
    <<"e","x","e","c","u","t","i","o","n">>   \* 'execution'
  >>]
  >>

general_keywords ==
  <<
    <<"e","x","p","e","r","i","e","n","c","e">>,  \* 'experience'
    <<"s","k","i","l","l","s">>,  \* 'skills'
    <<"e","d","u","c","a","t","i","o","n">>,  \* 'education'
    <<"l","e","a","d","e","r","s","h","i","p">>,  \* 'leadership'
    <<"t","e","a","m">>,  \* 'team'
    <<"p","r","o","j","e","c","t">>,  \* 'project'
    <<"m","a","n","a","g","e","m","e","n","t">>,  \* 'management'
    <<"c","o","m","m","u","n","i","c","a","t","i","o","n">>,  \* 'communication'
    <<"p","r","o","b","l","e","m"," ","s","o","l","v","i","n","g">>,  \* 'problem solving'
    <<"a","n","a","l","y","t","i","c","a","l">>,  \* 'analytical'
    <<"c","r","e","a","t","i","v","e">>,  \* 'creative'
    <<"i","n","n","o","v","a","t","i","v","e">>,  \* 'innovative'
    <<"r","e","s","u","l","t","s">>,  \* 'results'
    <<"a","c","h","i","e","v","e","m","e","n","t","s">>,  \* 'achievements'
    <<"p","r","o","f","e","s","s","i","o","n","a","l">>   \* 'professional'
  >>

\* the entry of a name -> value table (a dict), given that the key is there
Lookup(table, key) == table[CHOOSE i \in 1..Len(table) : table[i].name = key]

\* key in table
HasKey(table, key) == \E i \in 1..Len(table) : table[i].name = key

\* config.get_job_keywords
get_job_keywords(job_category) ==
  IF HasKey(JOB_KEYWORDS, Lower(job_category))
  THEN Lookup(JOB_KEYWORDS, Lower(job_category)).keywords
  ELSE general_keywords

\* config.get_company_job_requirements
get_company_job_requirements(job_category) ==
  IF HasKey(COMPANY_JOB_REQUIREMENTS, Lower(job_category))
  THEN Lookup(COMPANY_JOB_REQUIREMENTS, Lower(job_category))
  ELSE [name |-> job_category,
        required_keywords |-> get_job_keywords(job_category),
        preferred_keywords |-> <<>>,
        minimum_experience |-> 0,
        required_education |-> << <<"b","a","c","h","e","l","o","r">> >>,
        minimum_ats_score |-> 60]

\* len([k for k in keywords if k.lower() in [f.lower() for f in found_keywords]])
KeywordsFound(keywords, found_keywords) ==
  LET found_lower == [i \in 1..Len(found_keywords) |-> Lower(found_keywords[i])] \o <<>>
  IN  Cardinality({i \in 1..Len(keywords) : InList(Lower(keywords[i]), found_lower)})

\* the preferred term without the division by the number of preferred keywords
KeywordRelevance_Undivided(required_found, required_total, preferred_found, preferred_total) ==
  IF required_total > 0
  THEN LET base == Rat(required_found * 70, required_total)
       IN  IF preferred_total > 0
           THEN RAdd(base, RInt(preferred_found * 30))
           ELSE base
  ELSE RInt(0)

\* keyword_score of evaluate_company_hiring_criteria
KeywordRelevance(required_found, required_total, preferred_found, preferred_total) ==
  IF required_total > 0
  THEN LET base == Rat(required_found * 70, required_total)
       IN  IF preferred_total > 0
           THEN RAdd(base, Rat(preferred_found * 30, preferred_total))
           ELSE base
  ELSE RInt(0)

\* the plain mean of the five scores
WeightedFinalScore_Mean(ats_score, keyword_score, experience_score, education_score, skills_score) ==
  RScale(RAdd(RAdd(RInt(ats_score + experience_score + education_score), keyword_score),
              skills_score), 1, 5)

\* final_score of evaluate_company_hiring_criteria, before rounding
WeightedFinalScore(ats_score, keyword_score, experience_score, education_score, skills_score) ==
  RAdd(RAdd(RAdd(RAdd(
    Rat(ats_score * COMPANY_HIRING_CRITERIA.ats_compatibility, 100),
    RScale(keyword_score, COMPANY_HIRING_CRITERIA.keyword_relevance, 100)),
    Rat(experience_score * COMPANY_HIRING_CRITERIA.experience_level, 100)),
    Rat(education_score * COMPANY_HIRING_CRITERIA.education_background, 100)),
    RScale(skills_score, COMPANY_HIRING_CRITERIA.skills_match, 100))

\* a neutral default for the skills as well
SkillsScore_Neutral(keyword_score) == RInt(50)

\* skills_score of evaluate_company_hiring_criteria: the keyword score
SkillsScore(keyword_score) == keyword_score

\* the decision taken on the ATS score alone
PassesCriteria_AtsOnly(ats_score, minimum_ats_score, keyword_score, final_score) ==
  ats_score >= minimum_ats_score

\* passes_criteria of evaluate_company_hiring_criteria
PassesCriteria(ats_score, minimum_ats_score, keyword_score, final_score) ==
  /\ ats_score >= minimum_ats_score
  /\ RGeq(keyword_score, RInt(40))
  /\ RGeq(final_score, RInt(60))

\* config.evaluate_company_hiring_criteria from its third line on, with the
\* requirements it looked up: the set of results the call can return (one,
\* unless a rounded field sits on a tie).  final_score, keyword_relevance and
\* skills_match are in tenths.
EvaluateAgainst(requirements, resume_data) ==
  LET ats_score == resume_data.ats_score
      found_keywords == resume_data.found_keywords
      required_keywords == requirements.required_keywords
      preferred_keywords == requirements.preferred_keywords
      required_found == KeywordsFound(required_keywords, found_keywords)
      preferred_found == KeywordsFound(preferred_keywords, found_keywords)
      keyword_score == KeywordRelevance(required_found, Len(required_keywords),
                                        preferred_found, Len(preferred_keywords))
      experience_score == 50
      education_score == 50
      skills_score == SkillsScore(keyword_score)
      final_score == WeightedFinalScore(ats_score, keyword_score, experience_score,
                                        education_score, skills_score)
      passes_criteria == PassesCriteria(ats_score, requirements.minimum_ats_score,
                                        keyword_score, final_score)
  IN  { [final_score |-> f,
         ats_compatibility |-> ats_score,
         keyword_relevance |-> k,
         experience_level |-> experience_score,
         education_background |-> education_score,
         skills_match |-> IF skills_score = keyword_score THEN k ELSE s,
         passes_criteria |-> passes_criteria,
         required_keywords_found |-> required_found,
         required_keywords_total |-> Len(required_keywords),
         preferred_keywords_found |-> preferred_found,
         preferred_keywords_total |-> Len(preferred_keywords),
         minimum_ats_score |-> requirements.minimum_ats_score]
        : f \in Round1(final_score), k \in Round1(keyword_score),
          s \in Round1(skills_score) }

\* config.evaluate_company_hiring_criteria
evaluate_company_hiring_criteria(resume_data, job_category) ==
  EvaluateAgainst(get_company_job_requirements(job_category), resume_data)

----------------------------------------------------------------------------
(* utils/ats_checker.py: the simple functions                              *)

KEYWORDS ==
  <<
    <<"P","y","t","h","o","n">>,  \* 'Python'
    <<"S","Q","L">>,  \* 'SQL'
    <<"m","a","c","h","i","n","e"," ","l","e","a","r","n","i","n","g">>,  \* 'machine learning'
    <<"p","r","o","j","e","c","t">>,  \* 'project'
    <<"t","e","a","m">>,  \* 'team'
    <<"p","r","o","b","l","e","m","-","s","o","l","v","i","n","g">>,  \* 'problem-solving'
    <<"J","a","v","a","S","c","r","i","p","t">>,  \* 'JavaScript'
    <<"J","a","v","a">>,  \* 'Java'
    <<"R","e","a","c","t">>,  \* 'React'
    <<"N","o","d","e",".","j","s">>,  \* 'Node.js'
    <<"A","P","I">>,  \* 'API'
    <<"d","a","t","a","b","a","s","e">>,  \* 'database'
    <<"G","i","t">>,  \* 'Git'
    <<"A","g","i","l","e">>   \* 'Agile'
  >>

\* [kw for kw in keywords if kw.lower() in text_lower]
KeywordsIn(keywords, text_lower) ==
  SelectSeq(keywords, LAMBDA kw : Contains(text_lower, Lower(kw)))

\* [kw for kw in keywords if kw.lower() not in text_lower]
KeywordsNotIn(keywords, text_lower) ==
  SelectSeq(keywords, LAMBDA kw : ~Contains(text_lower, Lower(kw)))

\* lst[:n]
Take(lst, n) == SubSeq(lst, 1, IF n < Len(lst) THEN n ELSE Len(lst))

\* check_formatting_issues
check_formatting_issues(text) ==
  LET text_lower == Lower(text)
  IN  (IF Contains(text_lower, <<"t","a","b","l","e">>) THEN 10 ELSE 0)
      + (IF Contains(text_lower, <<"g","r","a","p","h","i","c">>) \/ Contains(text_lower, <<"i","m","a","g","e">>)
         THEN 10 ELSE 0)
      + (IF Contains(text_lower, <<"h","e","a","d","e","r">>) \/ Contains(text_lower, <<"f","o","o","t","e","r">>)
         THEN 5 ELSE 0)

\* keyword_match_score: int((count / len(KEYWORDS)) * 100)
keyword_match_score(text) ==
  LET count == Len(KeywordsIn(KEYWORDS, Lower(text)))
  IN  (count * 100) \div Len(KEYWORDS)

\* the whole text counts, leading and trailing whitespace included
TooShort_NoStrip(text) == text = <<>> \/ Len(text) < 50

\* not text or len(text.strip()) < 50
TooShort(text) == text = <<>> \/ Len(Strip(text)) < 50

\* check_ats
check_ats(text) ==
  IF TooShort(text) THEN 0
  ELSE LET score == keyword_match_score(text)
           word_count == WordCount(text)
           penalty == check_formatting_issues(text)
                        + (IF word_count < 100 THEN 20
                           ELSE IF word_count > 1000 THEN 10 ELSE 0)
           final_score == IF score - penalty > 0 THEN score - penalty ELSE 0
       IN  IF final_score < 100 THEN final_score ELSE 100

\* the length bands of get_detailed_analysis
LengthScore(word_count) ==
  IF 300 <= word_count /\ word_count <= 800 THEN 100
  ELSE IF (200 <= word_count /\ word_count < 300)
            \/ (800 < word_count /\ word_count <= 1200) THEN 80
  ELSE IF (100 <= word_count /\ word_count < 200)
            \/ (1200 < word_count /\ word_count <= 1500) THEN 60
  ELSE 40

\* any(contact in text_lower for contact in ['@', 'email', 'phone'])
HasContactWord(text_lower) ==
  \/ Contains(text_lower, <<"@">>)
  \/ Contains(text_lower, <<"e","m","a","i","l">>)
  \/ Contains(text_lower, <<"p","h","o","n","e">>)

\* the recommendations of get_detailed_analysis for a text that is long enough
DetailedRecommendations(keyword_score, formatting_penalty, word_count, missing_keywords, text_lower) ==
  LET recommendations ==
        (IF keyword_score < 50
         THEN <<MsgOf("Include more relevant keywords. Missing: ",
                      Take(missing_keywords, 3))>>
         ELSE <<>>)
        \o (IF formatting_penalty > 20
            THEN <<Msg("Simplify formatting - avoid tables, images, and complex layouts")>>
            ELSE <<>>)
        \o (IF word_count < 300
            THEN <<Msg("Expand your resume content - add more details about your experience")>>
            ELSE IF word_count > 1000
            THEN <<Msg("Consider condensing your resume - focus on most relevant information")>>
            ELSE <<>>)
        \o (IF ~HasContactWord(text_lower)
            THEN <<Msg("Ensure contact information (email, phone) is clearly visible")>>
            ELSE <<>>)
  IN  IF Len(recommendations) = 0
      THEN <<Msg("Great job! Your resume looks well-optimized for ATS systems.")>>
      ELSE recommendations

\* get_detailed_analysis: the set of results the call can return
\* (overall_score in tenths)
get_detailed_analysis(text, job_category) ==
  IF TooShort(text)
  THEN { [overall_score |-> 0,
          keyword_score |-> 0,
          formatting_score |-> 0,
          length_score |-> 0,
          recommendations |-> <<Msg("Resume text is too short or empty")>>,
          found_keywords |-> <<>>,
          missing_keywords |-> Take(KEYWORDS, 5)] }
  ELSE
    LET keyword_score == keyword_match_score(text)
        formatting_penalty == check_formatting_issues(text)
        formatting_score == IF 100 - formatting_penalty > 0
                            THEN 100 - formatting_penalty ELSE 0
        word_count == WordCount(text)
        length_score == LengthScore(word_count)
        overall_score == RAdd(RAdd(Rat(keyword_score * 4, 10),
                                   Rat(formatting_score * 3, 10)),
                              Rat(length_score * 3, 10))
        text_lower == Lower(text)
        found_keywords == KeywordsIn(KEYWORDS, text_lower)
        missing_keywords == KeywordsNotIn(KEYWORDS, text_lower)
        contact_score == IF HasContactWord(text_lower) THEN 100 ELSE 50
        structure_score == IF formatting_score > length_score
                           THEN formatting_score ELSE length_score
    IN  { [overall_score |-> o,
           word_count |-> word_count,
           recommendations |->
             DetailedRecommendations(keyword_score, formatting_penalty, word_count,
                                     missing_keywords, text_lower),
           found_keywords |-> found_keywords,
           missing_keywords |-> Take(missing_keywords, 10),
           job_category |-> job_category,
           format_compatibility |->
             [score |-> formatting_score,
              feedback |-> <<Msg(IF formatting_score > 70 THEN "Good formatting"
                                 ELSE "Formatting needs improvement")>>],
           keyword_matching |->
             [score |-> keyword_score,
              feedback |-> <<MsgOf("Found {} relevant keywords", <<Len(found_keywords)>>)>>,
              found_keywords |-> found_keywords,
              missing_keywords |-> Take(missing_keywords, 5)],
           readability |->
             [score |-> length_score,
              feedback |-> <<MsgOf("Word count: {} words", <<word_count>>)>>,
              word_count |-> word_count],
           structure_organization |->
             [score |-> structure_score,
              feedback |-> <<Msg(IF structure_score > 70 THEN "Good structure"
                                 ELSE "Structure needs improvement")>>],
           contact_information |->
             [score |-> contact_score,
              feedback |-> <<Msg(IF contact_score > 50 THEN "Contact info found"
                                 ELSE "Missing contact information")>>]]
          : o \in Round1(overall_score) }

----------------------------------------------------------------------------
(* utils/intelligent_agent.py: class IntelligentATSAgent                   *)

\* self.job_categories, in declaration order
job_categories == <<
  [name |-> "education", keywords |-> <<
    <<"c","u","r","r","i","c","u","l","u","m">>,  \* 'curriculum'
    <<"c","l","a","s","s","r","o","o","m">>,  \* 'classroom'
    <<"s","t","u","d","e","n","t">>,  \* 'student'
    <<"t","e","a","c","h","i","n","g">>,  \* 'teaching'
    <<"l","e","s","s","o","n">>,  \* 'lesson'
    <<"t","e","a","c","h","e","r">>,  \* 'teacher'
    <<"s","c","h","o","o","l">>,  \* 'school'
    <<"s","y","l","l","a","b","u","s">>,  \* 'syllabus'
    <<"a","s","s","e","s","s","m","e","n","t">>,  \* 'assessment'
    <<"p","e","d","a","g","o","g","y">>,  \* 'pedagogy'
    <<"l","e","a","r","n","i","n","g">>,  \* 'learning'
    <<"e","d","u","c","a","t","i","o","n">>,  \* 'education'
    <<"i","n","s","t","r","u","c","t","o","r">>,  \* 'instructor'
    <<"t","u","t","o","r","i","n","g">>,  \* 'tutoring'
    <<"a","c","a","d","e","m","i","c">>,  \* 'academic'
    <<"g","r","a","d","e">>,  \* 'grade'
    <<"c","o","u","r","s","e">>,  \* 'course'
    <<"t","r","a","i","n","i","n","g">>,  \* 'training'
    <<"w","o","r","k","s","h","o","p">>   \* 'workshop'
  >>],
  [name |-> "art", keywords |-> <<
    <<"c","r","e","a","t","i","v","e">>,  \* 'creative'
    <<"d","e","s","i","g","n">>,  \* 'design'
    <<"v","i","s","u","a","l">>,  \* 'visual'
    <<"p","o","r","t","f","o","l","i","o">>,  \* 'portfolio'
    <<"e","x","h","i","b","i","t","i","o","n">>,  \* 'exhibition'
    <<"a","r","t">>,  \* 'art'
    <<"g","a","l","l","e","r","y">>,  \* 'gallery'
    <<"p","h","o","t","o","g","r","a","p","h","y">>,  \* 'photography'
    <<"p","a","i","n","t","i","n","g">>,  \* 'painting'
    <<"g","r","a","p","h","i","c">>,  \* 'graphic'
    <<"i","l","l","u","s","t","r","a","t","i","o","n">>,  \* 'illustration'
    <<"a","r","t","i","s","t","i","c">>,  \* 'artistic'
    <<"a","e","s","t","h","e","t","i","c">>,  \* 'aesthetic'
    <<"d","r","a","w","i","n","g">>,  \* 'drawing'
    <<"s","c","u","l","p","t","u","r","e">>,  \* 'sculpture'
    <<"m","e","d","i","a">>,  \* 'media'
    <<"d","i","g","i","t","a","l"," ","a","r","t">>,  \* 'digital art'
    <<"a","d","o","b","e">>,  \* 'adobe'
    <<"p","h","o","t","o","s","h","o","p">>   \* 'photoshop'
  >>],
  [name |-> "tech", keywords |-> <<
    <<"p","y","t","h","o","n">>,  \* 'python'
    <<"s","q","l">>,  \* 'sql'
    <<"a","p","i">>,  \* 'api'
    <<"j","a","v","a","s","c","r","i","p","t">>,  \* 'javascript'
    <<"p","r","o","g","r","a","m","m","i","n","g">>,  \* 'programming'
    <<"m","a","c","h","i","n","e"," ","l","e","a","r","n","i","n","g">>,  \* 'machine learning'
    <<"j","a","v","a">>,  \* 'java'
    <<"r","e","a","c","t">>,  \* 'react'
    <<"n","o","d","e",".","j","s">>,  \* 'node.js'
    <<"g","i","t">>,  \* 'git'
    <<"s","o","f","t","w","a","r","e">>,  \* 'software'
    <<"d","e","v","e","l","o","p","e","r">>,  \* 'developer'
    <<"c","o","d","i","n","g">>,  \* 'coding'
    <<"d","a","t","a","b","a","s","e">>,  \* 'database'
    <<"a","l","g","o","r","i","t","h","m">>,  \* 'algorithm'
    <<"f","r","a","m","e","w","o","r","k">>,  \* 'framework'
    <<"b","a","c","k","e","n","d">>,  \* 'backend'
    <<"f","r","o","n","t","e","n","d">>,  \* 'frontend'
    <<"d","e","v","o","p","s">>   \* 'devops'
  >>],
  [name |-> "healthcare", keywords |-> <<
    <<"p","a","t","i","e","n","t">>,  \* 'patient'
    <<"c","l","i","n","i","c","a","l">>,  \* 'clinical'
    <<"m","e","d","i","c","a","l">>,  \* 'medical'
    <<"t","r","e","a","t","m","e","n","t">>,  \* 'treatment'
    <<"h","e","a","l","t","h">>,  \* 'health'
    <<"n","u","r","s","e">>,  \* 'nurse'
    <<"d","o","c","t","o","r">>,  \* 'doctor'
    <<"h","o","s","p","i","t","a","l">>,  \* 'hospital'
    <<"t","h","e","r","a","p","y">>,  \* 'therapy'
    <<"d","i","a","g","n","o","s","i","s">>,  \* 'diagnosis'
    <<"c","a","r","e">>,  \* 'care'
    <<"p","h","a","r","m","a","c","e","u","t","i","c","a","l">>,  \* 'pharmaceutical'
    <<"s","u","r","g","e","r","y">>,  \* 'surgery'
    <<"h","e","a","l","t","h","c","a","r","e">>,  \* 'healthcare'
    <<"m","e","d","i","c","a","l"," ","r","e","c","o","r","d","s">>,  \* 'medical records'
    <<"p","a","t","i","e","n","t"," ","c","a","r","e">>   \* 'patient care'
  >>],
  [name |-> "finance", keywords |-> <<
    <<"f","i","n","a","n","c","i","a","l">>,  \* 'financial'
    <<"a","c","c","o","u","n","t","i","n","g">>,  \* 'accounting'
    <<"b","u","d","g","e","t">>,  \* 'budget'
    <<"a","n","a","l","y","s","i","s">>,  \* 'analysis'
    <<"a","u","d","i","t">>,  \* 'audit'
    <<"i","n","v","e","s","t","m","e","n","t">>,  \* 'investment'
    <<"t","a","x">>,  \* 'tax'
    <<"b","a","n","k","i","n","g">>,  \* 'banking'
    <<"f","i","n","a","n","c","e">>,  \* 'finance'
    <<"e","c","o","n","o","m","i","c","s">>,  \* 'economics'
    <<"p","o","r","t","f","o","l","i","o">>,  \* 'portfolio'
    <<"r","i","s","k">>,  \* 'risk'
    <<"t","r","a","d","i","n","g">>,  \* 'trading'
    <<"f","i","n","a","n","c","i","a","l"," ","p","l","a","n","n","i","n","g">>,  \* 'financial planning'
    <<"e","x","c","e","l">>,  \* 'excel'
    <<"f","i","n","a","n","c","i","a","l"," ","m","o","d","e","l","i","n","g">>   \* 'financial modeling'
  >>],
  [name |-> "marketing", keywords |-> <<
    <<"m","a","r","k","e","t","i","n","g">>,  \* 'marketing'
    <<"a","d","v","e","r","t","i","s","i","n","g">>,  \* 'advertising'
    <<"b","r","a","n","d","i","n","g">>,  \* 'branding'
    <<"c","a","m","p","a","i","g","n">>,  \* 'campaign'
    <<"s","o","c","i","a","l"," ","m","e","d","i","a">>,  \* 'social media'
    <<"s","e","o">>,  \* 'seo'
    <<"c","o","n","t","e","n","t">>,  \* 'content'
    <<"d","i","g","i","t","a","l"," ","m","a","r","k","e","t","i","n","g">>,  \* 'digital marketing'
    <<"a","n","a","l","y","t","i","c","s">>,  \* 'analytics'
    <<"c","o","n","v","e","r","s","i","o","n">>,  \* 'conversion'
    <<"l","e","a","d"," ","g","e","n","e","r","a","t","i","o","n">>   \* 'lead generation'
  >>],
  [name |-> "sales", keywords |-> <<
    <<"s","a","l","e","s">>,  \* 'sales'
    <<"c","l","i","e","n","t">>,  \* 'client'
    <<"c","u","s","t","o","m","e","r">>,  \* 'customer'
    <<"r","e","v","e","n","u","e">>,  \* 'revenue'
    <<"n","e","g","o","t","i","a","t","i","o","n">>,  \* 'negotiation'
    <<"p","i","p","e","l","i","n","e">>,  \* 'pipeline'
    <<"c","r","m">>,  \* 'crm'
    <<"q","u","o","t","a">>,  \* 'quota'
    <<"r","e","l","a","t","i","o","n","s","h","i","p">>,  \* 'relationship'
    <<"b","u","s","i","n","e","s","s"," ","d","e","v","e","l","o","p","m","e","n","t">>   \* 'business development'
  >>]
  >>

RECURSIVE CountFrom(_, _, _)
\* str.count from position i on: occurrences found scanning left to right,
\* each search resuming after the end of the last occurrence found
CountFrom(sub, t, i) ==
  LET at == {p \in i..(Len(t) - Len(sub) + 1) : OccursAt(sub, t, p)}
  IN  IF at = {} THEN 0
      ELSE 1 + CountFrom(sub, t, (CHOOSE p \in at : \A r \in at : p <= r) + Len(sub))

\* t.count(sub), sub not empty
Count(t, sub) == CountFrom(sub, t, 1)

RECURSIVE CategoryScore_Presence(_, _)
\* a keyword counted once however often it occurs
CategoryScore_Presence(keywords, resume_lower) ==
  IF keywords = <<>> THEN 0
  ELSE (IF Contains(resume_lower, Lower(Head(keywords))) THEN 1 ELSE 0)
         + CategoryScore_Presence(Tail(keywords), resume_lower)

RECURSIVE CategoryScore_FirstMatch(_, _)
\* the loop left at the first keyword of the list that occurs
CategoryScore_FirstMatch(keywords, resume_lower) ==
  IF keywords = <<>> THEN 0
  ELSE IF Contains(resume_lower, Lower(Head(keywords)))
       THEN Count(resume_lower, Lower(Head(keywords)))
       ELSE CategoryScore_FirstMatch(Tail(keywords), resume_lower)

RECURSIVE CategoryScore(_, _)
\* the inner loop of auto_detect_job_category: score += count
CategoryScore(keywords, resume_lower) ==
  IF keywords = <<>> THEN 0
  ELSE Count(resume_lower, Lower(Head(keywords)))
         + CategoryScore(Tail(keywords), resume_lower)

RECURSIVE CategoryScores(_, _)
\* the outer loop of auto_detect_job_category: scores[category] = score, the
\* dict keeping insertion order
CategoryScores(categories, resume_lower) ==
  IF categories = <<>> THEN <<>>
  ELSE <<[name |-> Head(categories).name,
          score |-> CategoryScore(Head(categories).keywords, resume_lower)]>>
         \o CategoryScores(Tail(categories), resume_lower)

\* max(scores, key=scores.get): the last key holding the largest value
BestCategory_Last(scores) ==
  scores[CHOOSE i \in 1..Len(scores) :
           /\ \A j \in 1..Len(scores) : scores[j].score <= scores[i].score
           /\ \A j \in (i + 1)..Len(scores) : scores[j].score < scores[i].score].name

\* max(scores, key=scores.get): the first key, in insertion order, holding
\* the largest value
BestCategory(scores) ==
  scores[CHOOSE i \in 1..Len(scores) :
           /\ \A j \in 1..Len(scores) : scores[j].score <= scores[i].score
           /\ \A j \in 1..(i - 1) : scores[j].score < scores[i].score].name

\* scores[category]
ScoreOf(scores, category) ==
  scores[CHOOSE i \in 1..Len(scores) : scores[i].name = category].score

\* the 'general' fallback left out
DetectedCategory_NoFallback(scores) == BestCategory(scores)

\* best_category of auto_detect_job_category
DetectedCategory(scores) ==
  LET best_category == IF scores # <<>> THEN BestCategory(scores) ELSE "general"
  IN  IF ScoreOf(scores, best_category) = 0 THEN "general" ELSE best_category

\* IntelligentATSAgent.__init__
IntelligentATSAgent_init == [job_categories |-> job_categories]

\* IntelligentATSAgent.auto_detect_job_category
auto_detect_job_category(self, resume_text) ==
  LET resume_lower == Lower(resume_text)
      scores == CategoryScores(self.job_categories, resume_lower)
  IN  [category |-> DetectedCategory(scores), scores |-> scores]

----------------------------------------------------------------------------
(* Inputs of the category detector                                         *)

\* a text is at most this many pieces put one after the other
MaxTokens == 3

\* the pieces: 'sales' followed by 'ales' holds 'sales' twice, overlapping;
\* 'portfolio' is a keyword of art and of finance; 'machine learning' holds
\* 'learning'; 'Java' followed by 'script' is 'Javascript'
DetectTokens == <<
    <<"s","a","l","e","s">>,  \* 'sales'
    <<"a","l","e","s">>,  \* 'ales'
    <<"P","o","r","t","f","o","l","i","o">>,  \* 'Portfolio'
    <<"m","a","c","h","i","n","e"," ","l","e","a","r","n","i","n","g">>,  \* 'machine learning'
    <<"J","a","v","a">>,  \* 'Java'
    <<"s","c","r","i","p","t">>,  \* 'script'
    <<" ">>   \* ' '
  >>

RECURSIVE Texts(_, _)
\* the texts made of at most n pieces of tokens
Texts(tokens, n) ==
  IF n = 0 THEN {<<>>}
  ELSE LET shorter == Texts(tokens, n - 1)
       IN  shorter \cup {t \o tokens[i] : t \in shorter, i \in 1..Len(tokens)}

DetectTexts == Texts(DetectTokens, MaxTokens)

----------------------------------------------------------------------------
(* Inputs of the screening evaluator                                       *)

\* the score range of check_ats
MaxScore == 100

\* job-category strings: the four requirement keys, one in another letter
\* case, a key of JOB_KEYWORDS only, and one no table knows
JobCategories == {
  <<"s","o","f","t","w","a","r","e","_","e","n","g","i","n","e","e","r">>,  \* 'software_engineer'
  <<"S","o","f","t","w","a","r","e","_","E","n","g","i","n","e","e","r">>,  \* 'Software_Engineer'
  <<"d","a","t","a","_","s","c","i","e","n","t","i","s","t">>,  \* 'data_scientist'
  <<"m","a","r","k","e","t","i","n","g","_","s","p","e","c","i","a","l","i","s","t">>,  \* 'marketing_specialist'
  <<"p","r","o","j","e","c","t","_","m","a","n","a","g","e","r">>,  \* 'project_manager'
  <<"m","a","r","k","e","t","i","n","g">>,  \* 'marketing'
  <<"g","e","n","e","r","a","l">>   \* 'general'
  }

\* strings a found_keywords list is drawn from: the simple checker's KEYWORDS
\* (what the upload pipeline passes) and two preferred keywords
FoundPool ==
  KEYWORDS \o <<
    <<"t","e","s","t","i","n","g">>,  \* 'testing'
    <<"A","l","g","o","r","i","t","h","m","s">>   \* 'Algorithms'
  >>

\* found_keywords lists: the prefixes and the suffixes of FoundPool
FoundLists ==
  {SubSeq(FoundPool, 1, n) : n \in 0..Len(FoundPool)}
    \cup {SubSeq(FoundPool, n, Len(FoundPool)) : n \in 1..Len(FoundPool)}

ScreenInputs ==
  [resume_data : [ats_score : 0..MaxScore, found_keywords : FoundLists],
   job_category : JobCategories]

----------------------------------------------------------------------------
(* utils/ats_checker.py: class ATSChecker                                  *)

CriterionNames == {ATS_CRITERIA_WEIGHTS[i].criterion : i \in 1..Len(ATS_CRITERIA_WEIGHTS)}

\* ATSChecker.__init__: the instance keeps the module globals as they are
ATSChecker_init(cfg) ==
  [thresholds |-> cfg.thresholds, criteria_weights |-> cfg.criteria_weights]

\* the score without the factor 1.2
KeywordMatchScore_NoBonus(found, total) ==
  IF total > 0 THEN Rat(found * 100, total) ELSE RInt(0)

\* a score that counts the keywords that are missing
KeywordMatchScore_Missing(found, total) ==
  IF total > 0 THEN Rat((total - found) * 100, total) ELSE RInt(0)

\* score of ATSChecker.check_keyword_matching from the two list lengths
KeywordMatchScore(found, total) ==
  LET match_percentage == IF total > 0 THEN Rat(found * 100, total) ELSE RInt(0)
  IN  RMin(RInt(100), RScale(match_percentage, 12, 10))

\* a neutral 50 for a criterion that is absent
CriterionScore_Neutral(individual_scores, criterion) ==
  IF criterion \in DOMAIN individual_scores
  THEN individual_scores[criterion].score
  ELSE RInt(50)

\* individual_scores.get(criterion, {}).get('score', 0)
CriterionScore(individual_scores, criterion) ==
  IF criterion \in DOMAIN individual_scores
  THEN individual_scores[criterion].score
  ELSE RInt(0)

RECURSIVE WeightedScore(_, _)
\* the loop of calculate_overall_score over self.criteria_weights.items()
WeightedScore(criteria_weights, individual_scores) ==
  IF criteria_weights = <<>> THEN RInt(0)
  ELSE LET last == criteria_weights[Len(criteria_weights)]
       IN  RAdd(WeightedScore(SubSeq(criteria_weights, 1, Len(criteria_weights) - 1),
                              individual_scores),
                RScale(CriterionScore(individual_scores, last.criterion), last.weight, 100))

\* the rating chain of calculate_overall_score
Rating(thresholds, weighted_score) ==
  IF RGeq(weighted_score, RInt(thresholds.excellent)) THEN "Excellent"
  ELSE IF RGeq(weighted_score, RInt(thresholds.good)) THEN "Good"
  ELSE IF RGeq(weighted_score, RInt(thresholds.average)) THEN "Average"
  ELSE IF RGeq(weighted_score, RInt(thresholds.poor)) THEN "Poor"
  ELSE "Very Poor"

\* ATSChecker.calculate_overall_score: the set of results the call can return
\* (overall_score in tenths)
calculate_overall_score(self, individual_scores) ==
  LET weighted_score == WeightedScore(self.criteria_weights, individual_scores)
  IN  { [overall_score |-> o,
         rating |-> Rating(self.thresholds, weighted_score),
         individual_scores |-> individual_scores]
        : o \in Round1(weighted_score) }

\* re.search(r'(image|img|picture|photo|graphic)', text.lower())
HasImageWord(text) ==
  LET text_lower == Lower(text)
  IN  \/ Contains(text_lower, <<"i","m","a","g","e">>)
      \/ Contains(text_lower, <<"i","m","g">>)
      \/ Contains(text_lower, <<"p","i","c","t","u","r","e">>)
      \/ Contains(text_lower, <<"p","h","o","t","o">>)
      \/ Contains(text_lower, <<"g","r","a","p","h","i","c">>)

\* re.search(r'\|.*\|', text): two bars with no line break between them
HasBarPair(text) ==
  \E i \in 1..Len(text) :
    /\ text[i] = "|"
    /\ \E j \in (i + 1)..Len(text) :
         /\ text[j] = "|"
         /\ \A k \in (i + 1)..(j - 1) : text[k] # "\n"

\* sum(1 for line in lines if len(line.split()) > 20)
IrregularSpacing(lines) ==
  Cardinality({i \in 1..Len(lines) : WordCount(lines[i]) > 20})

\* the penalties of check_format_compatibility, as the list of issues found
FormatIssues(text) ==
  LET lines == Split(text, "\n")
  IN  (IF HasImageWord(text)
       THEN <<"Possible images detected - ATS may not process these">> ELSE <<>>)
      \o (IF Contains(text, <<"\t">>) \/ HasBarPair(text)
          THEN <<"Possible tables detected - may cause parsing issues">> ELSE <<>>)
      \o (IF 10 * IrregularSpacing(lines) > 3 * Len(lines)
          THEN <<"Irregular text spacing detected - may indicate complex formatting">>
          ELSE <<>>)
      \o (IF text = <<>> \/ 10 * CountIn(text, WordChars \cup SpaceChars) < 7 * Len(text)
          THEN <<"High number of special characters - may indicate formatting issues">>
          ELSE <<>>)

\* what each issue of check_format_compatibility takes from the score
IssuePenalty(issue) ==
  CASE issue = "Possible images detected - ATS may not process these" -> 20
    [] issue = "Possible tables detected - may cause parsing issues" -> 15
    [] OTHER -> 10

RECURSIVE SumPenalties(_)
SumPenalties(issues) ==
  IF issues = <<>> THEN 0 ELSE IssuePenalty(Head(issues)) + SumPenalties(Tail(issues))

\* ATSChecker.check_format_compatibility (a feedback line that begins with
\* the check mark is written "OK: ...", one with the warning sign "WARN: ...")
check_format_compatibility(parsed_resume) ==
  LET text == parsed_resume.raw_text
      issues == FormatIssues(text)
      has_name == Truthy(parsed_resume.name)
      has_email == Truthy(parsed_resume.email)
      has_phone == Truthy(parsed_resume.phone)
      has_education == Len(parsed_resume.education) > 0
      has_experience == Len(parsed_resume.experience) > 0
      has_skills == Len(parsed_resume.skills) > 0
      score == (IF has_name THEN 15 ELSE 0) + (IF has_email THEN 15 ELSE 0)
               + (IF has_phone THEN 10 ELSE 0) + (IF has_education THEN 10 ELSE 0)
               + (IF has_experience THEN 15 ELSE 0) + (IF has_skills THEN 10 ELSE 0)
               - SumPenalties(issues) + 50
      bounded == IF score > 100 THEN 100 ELSE IF score < 0 THEN 0 ELSE score
      feedback ==
        (IF has_name THEN <<Msg("OK: Clear name identification")>> ELSE <<>>)
        \o (IF has_email THEN <<Msg("OK: Email address found")>> ELSE <<>>)
        \o (IF has_phone THEN <<Msg("OK: Phone number found")>> ELSE <<>>)
        \o (IF has_education THEN <<Msg("OK: Education section identified")>> ELSE <<>>)
        \o (IF has_experience THEN <<Msg("OK: Experience section identified")>> ELSE <<>>)
        \o (IF has_skills THEN <<Msg("OK: Skills section identified")>> ELSE <<>>)
        \o [i \in 1..Len(issues) |-> MsgOf("WARN: {}", <<issues[i]>>)]
  IN  [score |-> RInt(bounded), feedback |-> feedback, issues |-> issues]

\* a lookup by the category string as it is written
JobKeywordsOf_CaseSensitive(job_keywords, job_category) ==
  IF HasKey(job_keywords, job_category)
  THEN Lookup(job_keywords, job_category).keywords
  ELSE general_keywords

\* config.get_job_keywords reading the JOB_KEYWORDS the process holds
JobKeywordsOf(job_keywords, job_category) ==
  IF HasKey(job_keywords, Lower(job_category))
  THEN Lookup(job_keywords, Lower(job_category)).keywords
  ELSE general_keywords

\* config.get_company_job_requirements reading the COMPANY_JOB_REQUIREMENTS
\* and the JOB_KEYWORDS the process holds
CompanyRequirementsOf(cfg, job_category) ==
  IF HasKey(cfg.company_job_requirements, Lower(job_category))
  THEN Lookup(cfg.company_job_requirements, Lower(job_category))
  ELSE [name |-> job_category,
        required_keywords |-> JobKeywordsOf(cfg.job_keywords, job_category),
        preferred_keywords |-> <<>>,
        minimum_experience |-> 0,
        required_education |-> << <<"b","a","c","h","e","l","o","r">> >>,
        minimum_ats_score |-> 60]

\* [kw.lower() for kw in keywords]
LowerAll(keywords) == [i \in 1..Len(keywords) |-> Lower(keywords[i])] \o <<>>

\* ATSChecker.check_keyword_matching
check_keyword_matching(cfg, parsed_resume, job_category) ==
  LET text == Lower(parsed_resume.raw_text)
      keywords == LowerAll(JobKeywordsOf(cfg.job_keywords, job_category))
      found_keywords == SelectSeq(keywords, LAMBDA keyword : Contains(text, keyword))
      missing_keywords == SelectSeq(keywords, LAMBDA keyword : ~Contains(text, keyword))
      match_percentage == IF Len(keywords) > 0
                          THEN Rat(Len(found_keywords) * 100, Len(keywords))
                          ELSE RInt(0)
      feedback ==
        <<MsgOf("OK: Found {} out of {} relevant keywords",
                <<Len(found_keywords), Len(keywords)>>),
          MsgOf("Match rate: {:.1f}%", <<match_percentage>>)>>
        \o (IF Len(found_keywords) > 0
            THEN <<MsgOf("OK: Matched keywords: ", Take(found_keywords, 10))>> ELSE <<>>)
        \o (IF Len(missing_keywords) > 0 /\ Len(missing_keywords) <= 10
            THEN <<MsgOf("WARN: Consider adding: ", Take(missing_keywords, 5))>> ELSE <<>>)
  IN  [score |-> KeywordMatchScore(Len(found_keywords), Len(keywords)),
       feedback |-> feedback,
       found_keywords |-> found_keywords,
       missing_keywords |-> missing_keywords,
       match_percentage |-> match_percentage]

\* len([s for s in text.split('.') if s.strip()])
SentenceCount(text) ==
  LET sentences == Split(text, ".")
  IN  Cardinality({i \in 1..Len(sentences) : Strip(sentences[i]) # <<>>})

\* the characters check_readability takes for bullet points: the bullet,
\* the middle dot, the hyphen and the asterisk
bullet_indicators == {"U+2022", "U+00B7", "-", "*"}

\* len(re.findall(r'\b[A-Z][a-z]+', text)): a capital letter that begins a
\* word and is followed by a small letter
CapitalizedWords(text) ==
  Cardinality({i \in 1..(Len(text) - 1) :
                 /\ text[i] \in UpperChars
                 /\ text[i + 1] \in LowerChars
                 /\ (i = 1 \/ text[i - 1] \notin WordChars)})

\* ATSChecker.check_readability
check_readability(parsed_resume) ==
  LET text == parsed_resume.raw_text
      word_count == parsed_resume.word_count
      sentence_count == SentenceCount(text)
      good_count == 300 <= word_count /\ word_count <= 800
      good_sentences == 10 * sentence_count <= word_count
                          /\ word_count <= 20 * sentence_count
      has_bullets == \E i \in 1..Len(text) : text[i] \in bullet_indicators
      clean == 10 * (Len(text) - CountIn(text, UpperChars \cup LowerChars
                                                 \cup DigitChars \cup SpaceChars))
                 < Len(text)
      total_words == WordCount(text)
      capitalized == total_words > 0 /\ 10 * CapitalizedWords(text) > total_words
      score == (IF good_count THEN 30 ELSE IF word_count < 300 THEN 15 ELSE 20)
               + (IF sentence_count > 0 THEN (IF good_sentences THEN 25 ELSE 15) ELSE 0)
               + (IF has_bullets THEN 20 ELSE 5)
               + (IF clean THEN 15 ELSE 5)
               + (IF capitalized THEN 10 ELSE 0)
      feedback ==
        <<IF good_count THEN MsgOf("OK: Good word count: {} words", <<word_count>>)
          ELSE IF word_count < 300
          THEN MsgOf("WARN: Word count low: {} words (consider adding more detail)",
                     <<word_count>>)
          ELSE MsgOf("WARN: Word count high: {} words (consider condensing)",
                     <<word_count>>)>>
        \o (IF sentence_count > 0
            THEN <<IF good_sentences THEN Msg("OK: Good average sentence length")
                   ELSE Msg("WARN: Consider varying sentence length for better readability")>>
            ELSE <<>>)
        \o <<IF has_bullets THEN Msg("OK: Uses bullet points effectively")
             ELSE Msg("WARN: Consider using bullet points for better organization")>>
        \o <<IF clean THEN Msg("OK: Clean text with minimal special characters")
             ELSE Msg("WARN: High ratio of special characters may cause parsing issues")>>
        \o (IF capitalized THEN <<Msg("OK: Proper capitalization usage")>> ELSE <<>>)
  IN  IF text = <<>>
      THEN [score |-> RInt(0), feedback |-> <<Msg("No text found")>>]
      ELSE [score |-> RInt(IF score < 100 THEN score ELSE 100),
            feedback |-> feedback,
            word_count |-> word_count,
            sentence_count |-> sentence_count]

\* ATSChecker.check_structure_organization
check_structure_organization(parsed_resume) ==
  LET has_contact == Truthy(parsed_resume.email) \/ Truthy(parsed_resume.phone)
      has_experience == Len(parsed_resume.experience) > 0
      has_education == Len(parsed_resume.education) > 0
      has_skills == Len(parsed_resume.skills) > 0
      score == (IF has_contact THEN 25 ELSE 0) + (IF has_experience THEN 30 ELSE 0)
               + (IF has_education THEN 25 ELSE 0) + (IF has_skills THEN 20 ELSE 0)
  IN  [score |-> RInt(IF score < 100 THEN score ELSE 100),
       feedback |->
         <<IF has_contact THEN Msg("OK: Contact information present")
           ELSE Msg("WARN: Missing contact information"),
           IF has_experience THEN Msg("OK: Experience section present")
           ELSE Msg("WARN: Missing experience section"),
           IF has_education THEN Msg("OK: Education section present")
           ELSE Msg("WARN: Missing education section"),
           IF has_skills THEN Msg("OK: Skills section present")
           ELSE Msg("WARN: Missing skills section")>>,
       sections_found |-> [contact |-> has_contact, experience |-> has_experience,
                           education |-> has_education, skills |-> has_skills]]

\* re.match(r'^[A-Za-z0-9._%+-]+@[A-Za-z0-9.-]+\.[A-Z|a-z]{2,}$', email)
EmailFormatValid(email) ==
  LET local == UpperChars \cup LowerChars \cup DigitChars \cup {".", "_", "%", "+", "-"}
      domain == UpperChars \cup LowerChars \cup DigitChars \cup {".", "-"}
      tld == UpperChars \cup LowerChars \cup {"|"}
  IN  \E n \in {Len(email), Len(email) - 1} :
        /\ n >= 1
        /\ n = Len(email) \/ email[Len(email)] = "\n"
        /\ \E a \in 2..n : \E d \in (a + 2)..(n - 2) :
             /\ email[a] = "@"
             /\ email[d] = "."
             /\ \A i \in 1..(a - 1) : email[i] \in local
             /\ \A i \in (a + 1)..(d - 1) : email[i] \in domain
             /\ \A i \in (d + 1)..n : email[i] \in tld

\* ATSChecker.check_contact_information
check_contact_information(parsed_resume) ==
  LET name == parsed_resume.name
      email == parsed_resume.email
      phone == parsed_resume.phone
      score == (IF Truthy(name) THEN 40 ELSE 0)
               + (IF Truthy(email)
                  THEN (IF EmailFormatValid(email) THEN 50 ELSE 40) ELSE 0)
               + (IF Truthy(phone) THEN 20 ELSE 0)
  IN  [score |-> RInt(IF score < 100 THEN score ELSE 100),
       feedback |->
         <<IF Truthy(name) THEN MsgOf("OK: Name found: {}", <<name>>)
           ELSE Msg("WARN: Name not clearly identified")>>
         \o (IF Truthy(email)
             THEN <<MsgOf("OK: Email found: {}", <<email>>),
                    IF EmailFormatValid(email) THEN Msg("OK: Email format is valid")
                    ELSE Msg("WARN: Email format may be invalid")>>
             ELSE <<Msg("WARN: Email address not found")>>)
         \o <<IF Truthy(phone) THEN MsgOf("OK: Phone found: {}", <<phone>>)
              ELSE Msg("WARN: Phone number not found")>>,
       contact_details |-> [name |-> name, email |-> email, phone |-> phone]]

\* ATSChecker._generate_recommendations (overall_score in tenths)
generate_recommendations(individual_scores, overall_analysis) ==
  LET format_score == CriterionScore(individual_scores, "format_compatibility")
      keyword_score == CriterionScore(individual_scores, "keyword_matching")
      readability_score == CriterionScore(individual_scores, "readability")
      structure_score == CriterionScore(individual_scores, "structure_organization")
      contact_score == CriterionScore(individual_scores, "contact_information")
      missing_keywords == individual_scores.keyword_matching.missing_keywords
      sections == individual_scores.structure_organization.sections_found
      overall_score == overall_analysis.overall_score
      recommendations ==
        (IF RLess(format_score, RInt(70))
         THEN <<Msg("Use a simple, clean format without tables, text boxes, or images"),
                Msg("Stick to standard fonts like Arial, Calibri, or Times New Roman"),
                Msg("Avoid headers and footers that may not be parsed correctly")>>
         ELSE <<>>)
        \o (IF RLess(keyword_score, RInt(60))
            THEN (IF Len(missing_keywords) > 0
                  THEN <<MsgOf("Include relevant keywords: ", Take(missing_keywords, 5))>>
                  ELSE <<>>)
                 \o <<Msg("Tailor your resume to include industry-specific terminology")>>
            ELSE <<>>)
        \o (IF RLess(readability_score, RInt(70))
            THEN <<Msg("Use bullet points to organize information clearly"),
                   Msg("Keep sentences concise and easy to read"),
                   Msg("Aim for 300-800 words total")>>
            ELSE <<>>)
        \o (IF RLess(structure_score, RInt(70))
            THEN (IF ~sections.contact
                  THEN <<Msg("Ensure contact information is clearly visible at the top")>>
                  ELSE <<>>)
                 \o (IF ~sections.experience
                     THEN <<Msg("Include a detailed work experience section")>>
                     ELSE <<>>)
                 \o (IF ~sections.skills
                     THEN <<Msg("Add a skills section with relevant technical and soft skills")>>
                     ELSE <<>>)
            ELSE <<>>)
        \o (IF RLess(contact_score, RInt(70))
            THEN <<Msg("Include your full name, email, and phone number"),
                   Msg("Use a professional email address"),
                   Msg("Ensure contact information is at the top of the resume")>>
            ELSE <<>>)
      with_overall ==
        IF overall_score < 600
        THEN <<Msg("Consider a major revision focusing on ATS compatibility")>>
               \o recommendations
        ELSE IF overall_score < 800
        THEN <<Msg("Your resume is good but could benefit from minor improvements")>>
               \o recommendations
        ELSE recommendations
  IN  Take(with_overall, 10)

\* ATSChecker.analyze_resume: the set of results the call can return
analyze_resume(self, cfg, parsed_resume, job_category) ==
  LET individual_scores ==
        [format_compatibility |-> check_format_compatibility(parsed_resume),
         keyword_matching |-> check_keyword_matching(cfg, parsed_resume, job_category),
         readability |-> check_readability(parsed_resume),
         structure_organization |-> check_structure_organization(parsed_resume),
         contact_information |-> check_contact_information(parsed_resume)]
  IN  { [success |-> TRUE,
         overall_analysis |-> overall_analysis,
         detailed_analysis |-> individual_scores,
         recommendations |-> generate_recommendations(individual_scores, overall_analysis),
         job_category |-> job_category]
        : overall_analysis \in calculate_overall_score(self, individual_scores) }

----------------------------------------------------------------------------
(* Inputs of the score aggregator                                          *)

\* scores the four integer scorers can return: the lowest, one in between
\* and the highest
IntScores == {0, 70, 100}

\* scores check_keyword_matching can return for the keyword lists of config.py
KeywordScores ==
  UNION { {KeywordMatchScore(found, Len(get_job_keywords(c)))
            : found \in 0..Len(get_job_keywords(c))} : c \in JobCategories }

\* individual_scores: each criterion absent (NoRes) or present with a score
IndividualScores ==
  LET IntChoice == {NoRes} \cup {RInt(s) : s \in IntScores}
      FromChoice(ch) ==
        [c \in {x \in CriterionNames : ch[x] # NoRes} |-> [score |-> ch[c]]]
  IN  { FromChoice(ch) :
          ch \in [format_compatibility : IntChoice,
                  keyword_matching : {NoRes} \cup KeywordScores,
                  readability : IntChoice,
                  structure_organization : IntChoice,
                  contact_information : IntChoice] }

----------------------------------------------------------------------------
(* Inputs of the simple functions                                          *)

\* pieces of 24 and of 25 characters that end with a blank, a one-character
\* piece, a piece of whitespace only and a piece of one hundred words: two
\* of the first three kinds make 49 or 50 characters before and after strip()
SimpleTokens == <<
    <<"P","y","t","h","o","n"," ","a","n","d"," ","S","Q","L"," ","f","o","r"," ","t","e","a","m"," ">>,
    <<"i","m","a","g","e"," ","t","a","b","l","e"," ","h","e","a","d","e","r"," ","J","a","v","a",","," ">>,
    <<"-">>,
    <<" ","\n","\t">>,
    <<"a"," ","a"," ","a"," ","a"," ","a"," ","a"," ","a"," ","a"," ","a"," ","a"," ","a"," ","a"," ","a"," ","a"," ","a"," ","a"," ","a"," ","a"," ","a"," ","a"," ","a"," ","a"," ","a"," ","a"," ","a"," ","a"," ","a"," ","a"," ","a"," ","a"," ","a"," ","a"," ","a"," ","a"," ","a"," ","a"," ","a"," ","a"," ","a"," ","a"," ","a"," ","a"," ","a"," ","a"," ","a"," ","a"," ","a"," ","a"," ","a"," ","a"," ","a"," ","a"," ","a"," ","a"," ","a"," ","a"," ","a"," ","a"," ","a"," ","a"," ","a"," ","a"," ","a"," ","a"," ","a"," ","a"," ","a"," ","a"," ","a"," ","a"," ","a"," ","a"," ","a"," ","a"," ","a"," ","a"," ","a"," ","a"," ","a"," ","a"," ","a"," ","a"," ","a"," ","a"," ","a"," ","a"," ","a"," ","a"," ","a"," ","a"," ","a"," ","a"," ","a"," ","a"," ","a"," ","a"," ","a"," ","a"," ","a"," ","a"," ">>  \* 'a ' * 100
  >>

SimpleTexts == Texts(SimpleTokens, MaxTokens)

\* the job categories get_detailed_analysis is called with: its default,
\* a form value and an empty one
DetailCategories == {
  <<"g","e","n","e","r","a","l">>,
  <<"D","a","t","a"," ","S","c","i","e","n","t","i","s","t">>,
  <<>>
  }

----------------------------------------------------------------------------
(* Inputs of the ATSChecker methods                                        *)

\* what the parser found besides the text: everything, with a well-formed
\* e-mail address
FullFields ==
  [name |-> <<"J","a","n","e"," ","D","o","e">>, email |-> <<"j","a","n","e",".","d","o","e","@","m","a","i","l",".","c","o","m">>, phone |-> <<"5","5","5","-","0","1","0","0">>,
   education |-> <<<<"B","S","c">>>>, experience |-> <<<<"E","n","g","i","n","e","e","r">>>>, skills |-> <<<<"P","y","t","h","o","n">>>>,
   word_count |-> 500]

\* ... or nothing at all; a malformed address and no phone; an empty name
\* and no address
ParsedFields == {
  FullFields,
  [name |-> None, email |-> None, phone |-> None,
   education |-> <<>>, experience |-> <<>>, skills |-> <<>>, word_count |-> 0],
  [name |-> <<"J","a","n","e"," ","D","o","e">>, email |-> <<"j","a","n","e","@","m","a","i","l">>, phone |-> None,
   education |-> <<>>, experience |-> <<<<"E","n","g","i","n","e","e","r">>>>, skills |-> <<>>,
   word_count |-> 120],
  [name |-> <<>>, email |-> None, phone |-> <<"5","5","5","-","0","1","0","0">>,
   education |-> <<<<"B","S","c">>>>, experience |-> <<>>, skills |-> <<<<"P","y","t","h","o","n">>>>,
   word_count |-> 900]
  }

\* the parsed resume of a text
ParsedResume(raw_text, fields) ==
  [raw_text |-> raw_text, name |-> fields.name, email |-> fields.email,
   phone |-> fields.phone, education |-> fields.education,
   experience |-> fields.experience, skills |-> fields.skills,
   word_count |-> fields.word_count]

\* the job categories the methods are called with: the default, keys of
\* JOB_KEYWORDS (one in another letter case) and one no table knows
CheckerCategories == {
  <<"g","e","n","e","r","a","l">>,
  <<"S","o","f","t","w","a","r","e","_","E","n","g","i","n","e","e","r">>,
  <<"p","r","o","j","e","c","t","_","m","a","n","a","g","e","r">>,
  <<"m","a","r","k","e","t","i","n","g">>,
  <<"m","a","r","k","e","t","i","n","g","_","s","p","e","c","i","a","l","i","s","t">>
  }

\* two pieces that together hold 12 of the 14 project_manager keywords, in
\* capitals and in small letters, and two with keywords of other lists
KeywordTokens == <<
    <<"P","y","t","h","o","n"," ","S","Q","L"," ","p","r","o","j","e","c","t"," ","t","e","a","m","."," ">>,
    <<"A","g","i","l","e"," ","S","c","r","u","m"," ","K","a","n","b","a","n"," ","P","M","P"," ","T","i","m","e","l","i","n","e"," ","P","l","a","n","n","i","n","g"," ">>,
    <<"E","X","E","C","U","T","I","O","N",","," ","d","e","l","i","v","e","r","a","b","l","e","s",","," ","c","o","m","m","u","n","i","c","a","t","i","o","n",","," ","t","e","a","m"," ","l","e","a","d","e","r","s","h","i","p",","," ","p","r","o","j","e","c","t"," ","m","a","n","a","g","e","m","e","n","t",","," ","r","i","s","k"," ","m","a","n","a","g","e","m","e","n","t">>,
    <<"J","a","v","a","S","c","r","i","p","t">>
  >>

\* check_keyword_matching reads raw_text only: one choice of the other fields
KeywordResumes == {ParsedResume(t, FullFields) : t \in Texts(KeywordTokens, MaxTokens)}

\* JOB_KEYWORDS as shipped, and with the marketing list emptied
KeywordConfigs ==
  { JOB_KEYWORDS, [JOB_KEYWORDS EXCEPT ![3].keywords = <<>>] }

\* pieces with keywords and a sentence; capitalised words, a line break and a
\* footer line; a bar pair and an image word; a bullet and a line of 21 words; special
\* characters
ResumeTokens == <<
    <<"P","y","t","h","o","n"," ","S","Q","L"," ","p","r","o","j","e","c","t"," ","t","e","a","m","."," ">>,
    <<"L","e","d"," ","A","g","i","l","e"," ","S","c","r","u","m"," ","T","e","a","m","s","\n","P","a","g","e"," ","f","o","o","t","e","r","\n">>,
    <<"|"," ","i","m","a","g","e"," ","|"," ","J","a","v","a"," ","|">>,
    <<"U+2022"," ","a"," ","b"," ","c"," ","d"," ","e"," ","f"," ","g"," ","h"," ","i"," ","j"," ","k"," ","l"," ","m"," ","n"," ","o"," ","p"," ","q"," ","r"," ","s"," ","t"," ","u">>,
    <<"#","$","%","&","*","-">>
  >>

ParsedResumes ==
  {ParsedResume(t, f) : t \in Texts(ResumeTokens, MaxTokens), f \in ParsedFields}

(***************************************************************************)
(* app.py: the screening steps of upload_file                              *)
(***************************************************************************)

\* upload_file from the ATS analysis to the company evaluation: the
\* found_keywords the evaluation gets are those of get_detailed_analysis (the
\* agent analysis merged in between adds keys the evaluation does not read).
\* The set of results the handler can compute.
ScreenUpload(cfg, resume_text, job_category) ==
  LET ats_score == check_ats(resume_text)
  IN  UNION {
        { [ats_score |-> ats_score,
           detailed_analysis |-> detailed_analysis,
           passed_ats |-> ats_score >= 75,
           resume_data |-> [ats_score |-> ats_score,
                            found_keywords |-> detailed_analysis.found_keywords],
           company_evaluation |-> company_evaluation,
           passes_company_screening |-> company_evaluation.passes_criteria]
          : company_evaluation \in
              EvaluateAgainst(CompanyRequirementsOf(cfg, job_category),
                              [ats_score |-> ats_score,
                               found_keywords |-> detailed_analysis.found_keywords]) }
        : detailed_analysis \in get_detailed_analysis(resume_text, job_category) }

\* pieces of a resume text: ten and four of the fourteen required keywords of
\* software_engineer, three of its preferred keywords, and the other four
\* keywords of the simple checker, three of them in capitals
UploadTokens == <<
    <<"p","y","t","h","o","n"," ","j","a","v","a"," ","j","a","v","a","s","c","r","i","p","t"," ","r","e","a","c","t"," ","n","o","d","e",".","j","s"," ","s","q","l"," ","g","i","t"," ","a","p","i"," ","d","a","t","a","b","a","s","e"," ","a","g","i","l","e"," ">>,
    <<"s","c","r","u","m"," ","d","o","c","k","e","r"," ","a","w","s"," ","c","l","o","u","d"," ">>,
    <<"t","e","s","t","i","n","g"," ","k","u","b","e","r","n","e","t","e","s"," ","d","e","v","o","p","s"," ">>,
    <<"M","a","c","h","i","n","e"," ","L","e","a","r","n","i","n","g"," ","P","R","O","J","E","C","T"," ","T","e","a","m"," ","p","r","o","b","l","e","m","-","s","o","l","v","i","n","g"," ">>
  >>

UploadTexts == Texts(UploadTokens, MaxTokens)

(***************************************************************************)
(* Inputs of the category lookups                                          *)
(***************************************************************************)

\* str.upper() on one character
UpperChar(c) == IF c \in LowerChars THEN CHOOSE u \in UpperChars : LowerOf[u] = c ELSE c

\* the letter cases a category string is written in: as it is, upper case,
\* first letter capital, each word capital, and alternating either way
CaseVariants(s) ==
  { s,
    [i \in 1..Len(s) |-> UpperChar(s[i])] \o <<>>,
    [i \in 1..Len(s) |-> IF i = 1 THEN UpperChar(s[i]) ELSE s[i]] \o <<>>,
    [i \in 1..Len(s) |-> IF i = 1 \/ (i > 1 /\ s[i - 1] \in {"_", " ", "-"})
                         THEN UpperChar(s[i]) ELSE s[i]] \o <<>>,
    [i \in 1..Len(s) |-> IF i % 2 = 1 THEN UpperChar(s[i]) ELSE s[i]] \o <<>>,
    [i \in 1..Len(s) |-> IF i % 2 = 0 THEN UpperChar(s[i]) ELSE s[i]] \o <<>> }

\* category strings: the keys of COMPANY_JOB_REQUIREMENTS and of JOB_KEYWORDS,
\* the form default 'general', the empty string, and names in neither table
LookupNames == {
  <<"s","o","f","t","w","a","r","e","_","e","n","g","i","n","e","e","r">>,
  <<"d","a","t","a","_","s","c","i","e","n","t","i","s","t">>,
  <<"m","a","r","k","e","t","i","n","g","_","s","p","e","c","i","a","l","i","s","t">>,
  <<"p","r","o","j","e","c","t","_","m","a","n","a","g","e","r">>,
  <<"m","a","r","k","e","t","i","n","g">>,
  <<"g","e","n","e","r","a","l">>,
  <<>>,
  <<"s","a","l","e","s">>,
  <<"m","a","n","a","g","e","r">>,
  <<"s","o","f","t","w","a","r","e"," ","e","n","g","i","n","e","e","r">>,
  <<"d","a","t","a","-","s","c","i","e","n","t","i","s","t">>
  }

LookupCategories == UNION {CaseVariants(s) : s \in LookupNames}

(***************************************************************************)
(* The candidate e-mail store (utils/email_manager.py)                     *)
(*                                                                         *)
(* Of a record the dates, "source" and "status" are left out: they are the *)
(* clock's value and two fixed strings.  A read and a write of the file    *)
(* are each one step.                                                      *)
(***************************************************************************)

\* the last index j such that s[i..j] holds only characters of chars (i - 1 if none)
RunEnd(s, i, chars) ==
  (CHOOSE k \in i..(Len(s) + 1) : k = Len(s) + 1 \/ s[k] \notin chars) - 1

\* the regular expression \b before position i: a word character on exactly one side
WordBoundary(s, i) ==
  (i > 1 /\ i - 1 <= Len(s) /\ s[i - 1] \in WordChars) # (i >= 1 /\ i <= Len(s) /\ s[i] \in WordChars)

\* the address pattern of extract_emails_from_text, and the one of parse_resume:
\* the character classes of the local part, the domain and the last label, that
\* label's least length, and whether \b stands at both ends
EmailPattern ==
  [local |-> UpperChars \cup LowerChars \cup DigitChars \cup {".", "_", "%", "+", "-"},
   domain |-> UpperChars \cup LowerChars \cup DigitChars \cup {".", "-"},
   tld |-> UpperChars \cup LowerChars \cup {"|"},
   min_tld |-> 2,
   bounded |-> TRUE]

ParserEmailPattern ==
  [local |-> WordChars \cup {".", "-"},
   domain |-> WordChars \cup {".", "-"},
   tld |-> WordChars,
   min_tld |-> 1,
   bounded |-> FALSE]

\* the matches of local+ @ domain+ \. tld{min_tld,} in s that begin at or
\* after from: <<start, last dot, end>>
AddressMatches(s, from, pat) ==
  UNION {
    UNION { { <<i, p, e>> :
                e \in {x \in (p + pat.min_tld)..RunEnd(s, p + 1, pat.tld) :
                         pat.bounded => WordBoundary(s, x + 1)},
                i \in {x \in from..(at - 1) :
                         /\ \A y \in x..(at - 1) : s[y] \in pat.local
                         /\ pat.bounded => WordBoundary(s, x)} }
            : p \in {x \in (at + 2)..RunEnd(s, at + 1, pat.domain) : s[x] = "."} }
    : at \in {x \in (from + 1)..(Len(s) - 1) : s[x] = "@"} }

\* re.search from position from: <<start, end>> of the match the regular
\* expression engine finds, the leftmost one, with the domain and then the last
\* label as long as can be (<<0, 0>> if none)
AddressMatch(s, from, pat) ==
  LET found == AddressMatches(s, from, pat)
  IN  IF found = {} THEN <<0, 0>>
      ELSE LET m == CHOOSE m \in found : \A n \in found :
                      \/ m[1] < n[1]
                      \/ m[1] = n[1] /\ m[2] > n[2]
                      \/ m[1] = n[1] /\ m[2] = n[2] /\ m[3] >= n[3]
           IN  <<m[1], m[3]>>

RECURSIVE FindAll(_, _, _)
\* re.findall: the matches from left to right, none overlapping another
FindAll(s, from, pat) ==
  LET m == AddressMatch(s, from, pat)
  IN  IF m = <<0, 0>> THEN <<>>
      ELSE <<SubSeq(s, m[1], m[2])>> \o FindAll(s, m[2] + 1, pat)

\* _is_valid_email: re.match of ^local+@domain+\.tld{2,}$ ($ also matches before
\* a last newline), then the placeholder domains, looked for as they are written
is_valid_email(email) ==
  LET n == IF Len(email) > 0 /\ email[Len(email)] = "\n" THEN Len(email) - 1 ELSE Len(email)
      a == RunEnd(email, 1, EmailPattern.local) + 1
      invalid_patterns == {<<"e","x","a","m","p","l","e",".","c","o","m">>, <<"t","e","s","t",".","c","o","m">>, <<"s","a","m","p","l","e",".","c","o","m">>,
                           <<"p","l","a","c","e","h","o","l","d","e","r",".","c","o","m">>, <<"d","u","m","m","y",".","c","o","m">>, <<"l","o","r","e","m",".","c","o","m">>}
  IN  /\ email # None
      /\ Len(email) >= 5
      /\ a >= 2 /\ a <= n /\ email[a] = "@"
      /\ \E p \in (a + 2)..(n - 2) :
           /\ email[p] = "."
           /\ \A i \in (a + 1)..(p - 1) : email[i] \in EmailPattern.domain
           /\ \A i \in (p + 1)..n : email[i] \in EmailPattern.tld
      /\ \A pattern \in invalid_patterns : ~Contains(email, pattern)

\* extract_emails_from_text: the matches in lower case, those that are valid,
\* each once, in the order of their first occurrence
extract_emails_from_text(text) ==
  LET emails == FindAll(text, 1, EmailPattern)
      cleaned == [i \in 1..Len(emails) |-> Strip(Lower(emails[i]))] \o <<>>
      valid == SelectSeq(cleaned, is_valid_email)
      first == {i \in 1..Len(valid) : \A j \in 1..(i - 1) : valid[j] # valid[i]}
  IN  [k \in 1..Cardinality(first) |->
         valid[CHOOSE i \in first : Cardinality({j \in first : j <= i}) = k]] \o <<>>

\* the lookup comparing the addresses as they are written
find_existing_email_Exact(data, email) ==
  LET hits == {i \in 1..Len(data.emails) : data.emails[i].email = email}
  IN  IF hits = {} THEN 0 ELSE CHOOSE i \in hits : \A j \in hits : i <= j

\* _find_existing_email: the index of the first record with this address, the
\* letter case aside (0 if none)
find_existing_email(data, email) ==
  LET hits == {i \in 1..Len(data.emails) : Lower(data.emails[i].email) = Lower(email)}
  IN  IF hits = {} THEN 0 ELSE CHOOSE i \in hits : \A j \in hits : i <= j

\* store_candidate_email on the file content data: what it returns and what it
\* writes (written |-> FALSE: the file is neither read nor written)
store_candidate_email(data, email, candidate_name, cv_filename, job_category, ats_score, passed_screening) ==
  LET k == find_existing_email(data, email)
      result == IF passed_screening THEN <<"p","a","s","s","e","d">> ELSE <<"r","e","j","e","c","t","e","d">>
      existing_email == data.emails[k]
      updated == [existing_email EXCEPT
                    !.submission_count = @ + 1,
                    !.latest_cv_filename = cv_filename,
                    !.latest_job_category = job_category,
                    !.latest_ats_score = ats_score,
                    !.latest_screening_result = result,
                    !.candidate_name = IF Truthy(candidate_name) /\ ~Truthy(@)
                                       THEN candidate_name ELSE @]
      new_entry == [email |-> email,
                    candidate_name |-> candidate_name,
                    submission_count |-> 1,
                    latest_cv_filename |-> cv_filename,
                    latest_job_category |-> job_category,
                    latest_ats_score |-> ats_score,
                    latest_screening_result |-> result]
  IN  IF ~Truthy(email) \/ ~is_valid_email(email)
      THEN [value |-> FALSE, written |-> FALSE, data |-> data]
      ELSE IF k # 0
      THEN [value |-> TRUE, written |-> TRUE,
            data |-> [data EXCEPT !.emails[k] = updated]]
      ELSE [value |-> TRUE, written |-> TRUE,
            data |-> [emails |-> Append(data.emails, new_entry),
                      total_emails |-> Len(data.emails) + 1]]

\* the calls made of store_candidate_email: an address twice and once in
\* capitals, a second address, one whose placeholder domain is in capitals, a
\* placeholder address, and three that are no address
StoreCalls == {
  [email |-> <<"a","@","b",".","c","o">>, candidate_name |-> <<>>, ats_score |-> 0, passed_screening |-> FALSE],
  [email |-> <<"a","@","b",".","c","o">>, candidate_name |-> <<"A","n","n">>, ats_score |-> 80, passed_screening |-> TRUE],
  [email |-> <<"A","@","B",".","C","o">>, candidate_name |-> <<"B","e","a">>, ats_score |-> 51, passed_screening |-> FALSE],
  [email |-> <<"c","-","d","@","e",".","o","r","g">>, candidate_name |-> <<"C","y">>, ats_score |-> 80, passed_screening |-> TRUE],
  [email |-> <<"q","@","T","E","S","T",".","C","O","M">>, candidate_name |-> <<>>, ats_score |-> 0, passed_screening |-> FALSE],
  [email |-> <<"x","@","t","e","s","t",".","c","o","m">>, candidate_name |-> <<"X","i">>, ats_score |-> 80, passed_screening |-> TRUE],
  [email |-> <<"a","@","b",".","c">>, candidate_name |-> <<>>, ats_score |-> 0, passed_screening |-> FALSE],
  [email |-> <<"a"," ","b","@","c",".","d","e">>, candidate_name |-> <<>>, ats_score |-> 0, passed_screening |-> FALSE],
  [email |-> <<>>, candidate_name |-> <<"N","o","b","o","d","y">>, ats_score |-> 0, passed_screening |-> FALSE]
  }

\* the submissions the store counts, over all its records
RECURSIVE TotalSubmissions(_)
TotalSubmissions(emails) ==
  IF emails = <<>> THEN 0
  ELSE emails[1].submission_count + TotalSubmissions(Tail(emails))

\* the most submissions counted before the calls stop
MaxSubmissions == 3

\* parse_resume of utils/parser.py on the text extracted from the file: the
\* first address its pattern finds ("" if none) and the first line, stripped,
\* of 3 to 49 characters that holds no digit and no "@" ("Candidate" if none)
parse_resume(text) ==
  LET email == FindAll(text, 1, ParserEmailPattern)
      StripLines(lines) == [i \in 1..Len(lines) |-> Strip(lines[i])] \o <<>>
      IsNameLine(line) ==
        /\ Len(line) > 2 /\ Len(line) < 50
        /\ CountIn(line, DigitChars) = 0
        /\ ~Contains(line, <<"@">>)
      names == SelectSeq(StripLines(Split(text, "\n")), IsNameLine)
  IN  [resume_text |-> text,
       extracted_email |-> IF email # <<>> THEN email[1] ELSE <<>>,
       user_name |-> IF names # <<>> THEN names[1] ELSE <<"C","a","n","d","i","d","a","t","e">>]

\* the uploads: the text of the file, the job category and the e-mail field of
\* the form.  A CV with a name and an address that finds all fourteen keywords,
\* for the category it passes, and for another with an address in the form; one
\* with a placeholder address before the same address in capitals; one without
\* an address, with and without an address in the form; and a file without text
Uploads == {
  [text |-> <<"J","a","n","e"," ","D","o","e","\n","j","a","n","e",".","d","o","e","@","m","a","i","l",".","c","o","m","\n">> \o UploadTokens[1] \o UploadTokens[2] \o UploadTokens[4],
   job_category |-> <<"s","o","f","t","w","a","r","e","_","e","n","g","i","n","e","e","r">>, user_email |-> <<>>],
  [text |-> <<"J","a","n","e"," ","D","o","e","\n","j","a","n","e",".","d","o","e","@","m","a","i","l",".","c","o","m","\n">> \o UploadTokens[1] \o UploadTokens[2] \o UploadTokens[4],
   job_category |-> <<"g","e","n","e","r","a","l">>, user_email |-> <<"m","e","@","p","o","s","t",".","n","e","t">>],
  [text |-> <<"C","o","n","t","a","c","t"," ","i","n","f","o","@","t","e","s","t",".","c","o","m"," ","o","r"," ","J","A","N","E",".","D","O","E","@","M","a","i","l",".","C","O","M","\n">> \o UploadTokens[1],
   job_category |-> <<"s","o","f","t","w","a","r","e","_","e","n","g","i","n","e","e","r">>, user_email |-> <<>>],
  [text |-> <<"J","o","h","n"," ","R","o","e","\n">> \o UploadTokens[1] \o UploadTokens[2],
   job_category |-> <<"s","o","f","t","w","a","r","e","_","e","n","g","i","n","e","e","r">>, user_email |-> <<>>],
  [text |-> <<"J","o","h","n"," ","R","o","e","\n">> \o UploadTokens[1] \o UploadTokens[2],
   job_category |-> <<"g","e","n","e","r","a","l">>, user_email |-> <<"m","e","@","p","o","s","t",".","n","e","t">>],
  [text |-> <<>>, job_category |-> <<"g","e","n","e","r","a","l">>, user_email |-> <<>>]
  }

\* the upload requests that arrive
MaxRequests == 2

Requests == 1..MaxRequests

\* a request that has not arrived: no local of upload_file is set
NewRequest ==
  [pc |-> "new", filename |-> 0, job_category |-> <<>>, user_email |-> <<>>,
   resume_text |-> <<>>, extracted_email |-> <<>>, user_name |-> <<>>,
   auto_detected_email |-> None, final_email |-> <<>>,
   call |-> 0, data |-> NoRes, file |-> "none", existing |-> <<>>, entry |-> NoRes,
   screening |-> NoRes, email_sent |-> FALSE, attempts |-> <<>>,
   saved |-> NoRes, results |-> NoRes]

\* the server at process start: _initialize_emails_file has written an empty
\* store, the logs are empty, no request has arrived; app.run(debug=True) serves
\* each request in a thread of its own
ServerInit ==
  /\ candidate_emails = [emails |-> <<>>, total_emails |-> 0]
  /\ logs = [submissions |-> <<>>, analysis |-> <<>>]
  /\ requests = [r \in Requests |-> NewRequest]
  /\ threaded = TRUE

\* process start: config.py loaded as shipped, nothing called yet
Init ==
  /\ pc = "idle"
  /\ op = "none"
  /\ arg = NoRes
  /\ res = NoRes
  /\ config = [criteria_weights |-> ATS_CRITERIA_WEIGHTS,
               thresholds |-> ATS_THRESHOLDS,
               job_keywords |-> JOB_KEYWORDS,
               company_job_requirements |-> COMPANY_JOB_REQUIREMENTS]
  /\ checker = NoRes
  /\ agent = IntelligentATSAgent_init
  /\ ServerInit

\* the caller takes the result and the request ends: nothing of it is kept
Return ==
  /\ pc = "done"
  /\ pc' = "idle"
  /\ op' = "none"
  /\ arg' = NoRes
  /\ res' = NoRes
  /\ UNCHANGED <<config, checker, agent, server>>

\* evaluate_company_hiring_criteria taking the keywords it counted out of the
\* list get_company_job_requirements returned, which is the list of the table
EvaluateCompany_Consuming ==
  /\ pc = "idle"
  /\ \E a \in ScreenInputs :
       LET table == config.company_job_requirements
       IN  /\ arg' = a
           /\ res' \in EvaluateAgainst(CompanyRequirementsOf(config, a.job_category),
                                        a.resume_data)
           /\ config' = [config EXCEPT !.company_job_requirements =
                           [i \in 1..Len(table) |->
                              IF table[i].name = Lower(a.job_category)
                              THEN [table[i] EXCEPT !.required_keywords = <<>>]
                              ELSE table[i]] \o <<>>]
  /\ op' = "evaluate_company_hiring_criteria"
  /\ pc' = "done"
  /\ UNCHANGED <<checker, agent, server>>

\* one call of evaluate_company_hiring_criteria
EvaluateCompany ==
  /\ pc = "idle"
  /\ \E a \in ScreenInputs :
       /\ arg' = a
       /\ res' \in EvaluateAgainst(CompanyRequirementsOf(config, a.job_category),
                                    a.resume_data)
  /\ op' = "evaluate_company_hiring_criteria"
  /\ pc' = "done"
  /\ UNCHANGED <<config, checker, agent, server>>

SpecScreen == Init /\ [][EvaluateCompany \/ Return]_vars

\* COMPANY_JOB_REQUIREMENTS as shipped, and edited: software_engineer with no
\* required keywords, data_scientist with no required and no preferred ones
RequirementConfigs ==
  { COMPANY_JOB_REQUIREMENTS,
    [COMPANY_JOB_REQUIREMENTS EXCEPT ![1].required_keywords = <<>>,
                                     ![2].required_keywords = <<>>,
                                     ![2].preferred_keywords = <<>>] }

\* process start with the requirement sets of config.py as shipped or edited
InitRequirements ==
  /\ pc = "idle"
  /\ op = "none"
  /\ arg = NoRes
  /\ res = NoRes
  /\ config \in {[criteria_weights |-> ATS_CRITERIA_WEIGHTS,
                  thresholds |-> ATS_THRESHOLDS,
                  job_keywords |-> JOB_KEYWORDS,
                  company_job_requirements |-> r] : r \in RequirementConfigs}
  /\ checker = NoRes
  /\ agent = IntelligentATSAgent_init
  /\ ServerInit

SpecRequire == InitRequirements /\ [][EvaluateCompany \/ Return]_vars

Evaluated == pc = "done" /\ op = "evaluate_company_hiring_criteria"

\* ATSChecker(): the instance is constructed once
ATSCheckerInit ==
  /\ pc = "idle"
  /\ checker = NoRes
  /\ checker' = ATSChecker_init(config)
  /\ UNCHANGED <<pc, op, arg, res, config, agent, server>>

\* one call of ATSChecker.calculate_overall_score
CalculateOverall ==
  /\ pc = "idle"
  /\ checker # NoRes
  /\ \E s \in IndividualScores :
       /\ arg' = [individual_scores |-> s]
       /\ res' \in calculate_overall_score(checker, s)
  /\ op' = "calculate_overall_score"
  /\ pc' = "done"
  /\ UNCHANGED <<config, checker, agent, server>>

SpecScore == Init /\ [][ATSCheckerInit \/ CalculateOverall \/ Return]_vars

Aggregated == pc = "done" /\ op = "calculate_overall_score"

\* weight maps the configuration may hold when the process starts: the one
\* shipped, one summing to 110 and one summing to 90
WeightConfigs ==
  { ATS_CRITERIA_WEIGHTS,
    [ATS_CRITERIA_WEIGHTS EXCEPT ![2].weight = 40],
    [ATS_CRITERIA_WEIGHTS EXCEPT ![5].weight = 0] }

RECURSIVE WeightSum(_)
\* sum(criteria_weights.values())
WeightSum(criteria_weights) ==
  IF criteria_weights = <<>> THEN 0
  ELSE Head(criteria_weights).weight + WeightSum(Tail(criteria_weights))

\* process start with config.py edited
InitConfig ==
  /\ pc = "idle"
  /\ op = "none"
  /\ arg = NoRes
  /\ res = NoRes
  /\ config \in {[criteria_weights |-> w,
                  thresholds |-> ATS_THRESHOLDS,
                  job_keywords |-> JOB_KEYWORDS,
                  company_job_requirements |-> COMPANY_JOB_REQUIREMENTS]
                 : w \in WeightConfigs}
  /\ checker = NoRes
  /\ agent = IntelligentATSAgent_init
  /\ ServerInit

SpecConfig == InitConfig /\ [][ATSCheckerInit \/ CalculateOverall \/ Return]_vars

\* one call of IntelligentATSAgent.auto_detect_job_category
AutoDetect ==
  /\ pc = "idle"
  /\ \E t \in DetectTexts :
       /\ arg' = [resume_text |-> t]
       /\ res' = auto_detect_job_category(agent, t)
  /\ op' = "auto_detect_job_category"
  /\ pc' = "done"
  /\ UNCHANGED <<config, checker, agent, server>>

SpecDetect == Init /\ [][AutoDetect \/ Return]_vars

\* a list back to front, and a list with its first entry moved to the end
Reversed(s) == [i \in 1..Len(s) |-> s[Len(s) + 1 - i]] \o <<>>

Rotated(s) == IF s = <<>> THEN <<>> ELSE Tail(s) \o <<Head(s)>>

\* job_categories as written in __init__, and with the keyword lists in
\* another order: reversed for the first, third, fifth and seventh category,
\* rotated for the others
Taxonomies ==
  { job_categories,
    [i \in 1..Len(job_categories) |->
       [name |-> job_categories[i].name,
        keywords |-> IF i % 2 = 1 THEN Reversed(job_categories[i].keywords)
                     ELSE Rotated(job_categories[i].keywords)]] \o <<>> }

\* process start with the keyword lists of the agent in one of these orders
InitTaxonomy ==
  /\ pc = "idle"
  /\ op = "none"
  /\ arg = NoRes
  /\ res = NoRes
  /\ config = [criteria_weights |-> ATS_CRITERIA_WEIGHTS,
               thresholds |-> ATS_THRESHOLDS,
               job_keywords |-> JOB_KEYWORDS,
               company_job_requirements |-> COMPANY_JOB_REQUIREMENTS]
  /\ checker = NoRes
  /\ agent \in {[job_categories |-> jc] : jc \in Taxonomies}
  /\ ServerInit

SpecTaxonomy == InitTaxonomy /\ [][AutoDetect \/ Return]_vars

Detected == pc = "done" /\ op = "auto_detect_job_category"

\* one call of check_ats
CheckAts ==
  /\ pc = "idle"
  /\ \E t \in SimpleTexts :
       /\ arg' = [text |-> t]
       /\ res' = check_ats(t)
  /\ op' = "check_ats"
  /\ pc' = "done"
  /\ UNCHANGED <<config, checker, agent, server>>

\* one call of get_detailed_analysis
GetDetailedAnalysis ==
  /\ pc = "idle"
  /\ \E t \in SimpleTexts, c \in DetailCategories :
       /\ arg' = [text |-> t, job_category |-> c]
       /\ res' \in get_detailed_analysis(t, c)
  /\ op' = "get_detailed_analysis"
  /\ pc' = "done"
  /\ UNCHANGED <<config, checker, agent, server>>

SpecSimple == Init /\ [][CheckAts \/ GetDetailedAnalysis \/ Return]_vars

AtsChecked == pc = "done" /\ op = "check_ats"

DetailAnalyzed == pc = "done" /\ op = "get_detailed_analysis"

\* one call of ATSChecker.check_keyword_matching
CheckKeywordMatching ==
  /\ pc = "idle"
  /\ checker # NoRes
  /\ \E p \in KeywordResumes, c \in CheckerCategories :
       /\ arg' = [parsed_resume |-> p, job_category |-> c]
       /\ res' = check_keyword_matching(config, p, c)
  /\ op' = "check_keyword_matching"
  /\ pc' = "done"
  /\ UNCHANGED <<config, checker, agent, server>>

\* process start with the keyword lists of config.py as shipped or edited
InitKeywords ==
  /\ pc = "idle"
  /\ op = "none"
  /\ arg = NoRes
  /\ res = NoRes
  /\ config \in {[criteria_weights |-> ATS_CRITERIA_WEIGHTS,
                  thresholds |-> ATS_THRESHOLDS,
                  job_keywords |-> k,
                  company_job_requirements |-> COMPANY_JOB_REQUIREMENTS]
                 : k \in KeywordConfigs}
  /\ checker = NoRes
  /\ agent = IntelligentATSAgent_init
  /\ ServerInit

SpecKeyword == InitKeywords /\ [][ATSCheckerInit \/ CheckKeywordMatching \/ Return]_vars

KeywordChecked == pc = "done" /\ op = "check_keyword_matching"

\* what one call of check_keyword_matching shows of its keyword list and result
KeywordOutcome(job_keywords, job_category, r) ==
  [keywords |-> JobKeywordsOf(job_keywords, job_category), found |-> Len(r.found_keywords), score |-> r.score]

\* the outcomes of the calls CheckKeywordMatching makes on the texts of at
\* most two pieces, to compare the outcome of any call with
KeywordOutcomes ==
  { KeywordOutcome(x[1], x[2], check_keyword_matching([job_keywords |-> x[1]], x[3], x[2]))
    : x \in KeywordConfigs \X CheckerCategories
              \X {ParsedResume(t, FullFields) : t \in Texts(KeywordTokens, 2)} }

\* one call of ATSChecker.analyze_resume
AnalyzeResume ==
  /\ pc = "idle"
  /\ checker # NoRes
  /\ \E p \in ParsedResumes, c \in CheckerCategories :
       /\ arg' = [parsed_resume |-> p, job_category |-> c]
       /\ res' \in analyze_resume(checker, config, p, c)
  /\ op' = "analyze_resume"
  /\ pc' = "done"
  /\ UNCHANGED <<config, checker, agent, server>>

SpecAnalyze == Init /\ [][ATSCheckerInit \/ AnalyzeResume \/ Return]_vars

Analyzed == pc = "done" /\ op = "analyze_resume"

\* every operation of the engine
\* one call of config.get_job_keywords
GetJobKeywords ==
  /\ pc = "idle"
  /\ \E c \in LookupCategories :
       /\ arg' = [job_category |-> c]
       /\ res' = [value |-> JobKeywordsOf(config.job_keywords, c)]
  /\ op' = "get_job_keywords"
  /\ pc' = "done"
  /\ UNCHANGED <<config, checker, agent, server>>

\* one call of config.get_company_job_requirements
GetCompanyJobRequirements ==
  /\ pc = "idle"
  /\ \E c \in LookupCategories :
       /\ arg' = [job_category |-> c]
       /\ res' = [value |-> CompanyRequirementsOf(config, c)]
  /\ op' = "get_company_job_requirements"
  /\ pc' = "done"
  /\ UNCHANGED <<config, checker, agent, server>>

SpecLookup == Init /\ [][GetJobKeywords \/ GetCompanyJobRequirements \/ Return]_vars

JobKeywordsLooked == pc = "done" /\ op = "get_job_keywords"

RequirementsLooked == pc = "done" /\ op = "get_company_job_requirements"

\* the screening steps of one upload
UploadFile ==
  /\ pc = "idle"
  /\ \E t \in UploadTexts, c \in JobCategories :
       /\ arg' = [resume_text |-> t, job_category |-> c]
       /\ res' \in ScreenUpload(config, t, c)
  /\ op' = "upload_file"
  /\ pc' = "done"
  /\ UNCHANGED <<config, checker, agent, server>>

SpecUpload == Init /\ [][UploadFile \/ Return]_vars

Uploaded == pc = "done" /\ op = "upload_file"

(***************************************************************************)
(* Calls of the e-mail store and the upload requests                       *)
(***************************************************************************)

\* one call of email_manager.store_candidate_email
StoreCandidateEmail ==
  /\ pc = "idle"
  /\ TotalSubmissions(candidate_emails.emails) < MaxSubmissions
  /\ \E a \in StoreCalls :
       LET stored == store_candidate_email(candidate_emails, a.email, a.candidate_name, <<"c","v",".","p","d","f">>,
                                           <<"g","e","n","e","r","a","l">>, a.ats_score, a.passed_screening)
       IN  /\ arg' = a
           /\ res' = [value |-> stored.value, before |-> candidate_emails]
           /\ candidate_emails' = stored.data
  /\ op' = "store_candidate_email"
  /\ pc' = "done"
  /\ UNCHANGED <<config, checker, agent, logs, requests, threaded>>

SpecStore == Init /\ [][StoreCandidateEmail \/ Return]_vars

Stored == pc = "done" /\ op = "store_candidate_email"

\* upload_file up to the first call of the store (app.py:94-158): the file is
\* saved and parsed; without text the failed submission is logged and the
\* request ends; otherwise extract_and_store_candidate_email stores the first
\* address of the text, if it has one.  Requests are numbered as they arrive;
\* a server that is not threaded takes one when the others have ended.
ReceiveUpload(r) ==
  /\ requests[r].pc = "new"
  /\ \A q \in Requests :
       /\ q < r => requests[q].pc # "new"
       /\ (q # r /\ ~threaded) => requests[q].pc \in {"new", "end"}
  /\ \E upload \in Uploads :
     \E parsed \in {parse_resume(upload.text)}, emails \in {extract_emails_from_text(upload.text)} :
       LET job_category == upload.job_category
           user_email == upload.user_email
           local == [NewRequest EXCEPT
                       !.filename = r,
                       !.job_category = job_category,
                       !.user_email = user_email,
                       !.resume_text = parsed.resume_text,
                       !.extracted_email = parsed.extracted_email,
                       !.user_name = parsed.user_name]
       IN  requests' = [requests EXCEPT ![r] =
             IF ~Truthy(parsed.resume_text)
             THEN [local EXCEPT
                     !.pc = "log_read", !.file = "submissions",
                     !.entry = [filename |-> r,
                                user_email |-> IF Truthy(user_email) THEN user_email
                                               ELSE parsed.extracted_email,
                                job_category |-> job_category,
                                ats_score |-> 0, passed_ats |-> FALSE,
                                status |-> "failed_parsing"]]
             ELSE IF emails # <<>>
             THEN [local EXCEPT !.pc = "store_read", !.call = 1,
                     !.entry = [email |-> emails[1], ats_score |-> 0,
                                passed_screening |-> FALSE]]
             ELSE [local EXCEPT !.pc = "screen",
                     !.final_email = IF Truthy(user_email) THEN user_email
                                     ELSE parsed.extracted_email]]
  /\ UNCHANGED <<pc, op, arg, res, config, checker, agent, candidate_emails, logs, threaded>>

\* what upload_file does after a call of store_candidate_email has returned
\* value: after the first call (app.py:151-161) the address is the
\* auto-detected one if it was stored, and the address to write to is chosen;
\* after the second (app.py:199-209) the submission is logged
AfterStore(local, value) ==
  IF local.call = 1
  THEN LET auto_detected_email == IF value THEN local.entry.email ELSE None
       IN  [local EXCEPT
              !.pc = "screen", !.data = NoRes, !.entry = NoRes,
              !.auto_detected_email = auto_detected_email,
              !.final_email = IF Truthy(local.user_email) THEN local.user_email
                              ELSE IF Truthy(auto_detected_email) THEN auto_detected_email
                              ELSE local.extracted_email]
  ELSE [local EXCEPT
          !.pc = "log_read", !.data = NoRes, !.file = "submissions",
          !.entry = [filename |-> local.filename,
                     user_email |-> local.final_email,
                     job_category |-> local.job_category,
                     ats_score |-> local.screening.ats_score,
                     passed_ats |-> local.screening.passed_ats,
                     status |-> "completed"]]

\* store_candidate_email up to json.load (email_manager.py:100-106): an address
\* that is refused ends the call, otherwise the file is read
StoreRead(r) ==
  /\ requests[r].pc = "store_read"
  /\ requests' = [requests EXCEPT ![r] =
       IF ~Truthy(@.entry.email) \/ ~is_valid_email(@.entry.email)
       THEN AfterStore(@, FALSE)
       ELSE [@ EXCEPT !.pc = "store_write", !.data = candidate_emails]]
  /\ UNCHANGED <<pc, op, arg, res, config, checker, agent, candidate_emails, logs, threaded>>

\* store_candidate_email from the lookup to json.dump (email_manager.py:108-155):
\* what was read, updated, replaces the file
StoreWrite(r) ==
  /\ requests[r].pc = "store_write"
  /\ LET local == requests[r]
         stored == store_candidate_email(local.data, local.entry.email, local.user_name,
                                         local.filename, local.job_category,
                                         local.entry.ats_score, local.entry.passed_screening)
     IN  /\ candidate_emails' = stored.data
         /\ requests' = [requests EXCEPT ![r] = AfterStore(local, stored.value)]
  /\ UNCHANGED <<pc, op, arg, res, config, checker, agent, logs, threaded>>

\* upload_file from the ATS analysis to the screening decision (app.py:165-196),
\* then the second call of the store if an address was auto-detected
Screen(r) ==
  /\ requests[r].pc = "screen"
  /\ \E screening \in ScreenUpload(config, requests[r].resume_text, requests[r].job_category) :
       requests' = [requests EXCEPT ![r] =
         LET local == [@ EXCEPT !.screening = screening]
         IN  IF Truthy(local.auto_detected_email)
             THEN [local EXCEPT !.pc = "store_read", !.call = 2,
                     !.entry = [email |-> local.auto_detected_email,
                                ats_score |-> screening.ats_score,
                                passed_screening |-> screening.passes_company_screening]]
             ELSE AfterStore([local EXCEPT !.call = 2], FALSE)]
  /\ UNCHANGED <<pc, op, arg, res, config, checker, agent, candidate_emails, logs, threaded>>

\* log_submission and log_analysis up to _read_json_file (json_logger.py:62-67,
\* 88-93): the log is read
LogRead(r) ==
  /\ requests[r].pc = "log_read"
  /\ requests' = [requests EXCEPT ![r] =
       [@ EXCEPT !.pc = "log_write", !.existing = logs[requests[r].file]]]
  /\ UNCHANGED <<pc, op, arg, res, config, checker, agent, candidate_emails, logs, threaded>>

\* log_submission and log_analysis from append to _write_json_file
\* (json_logger.py:69-73, 95-99): what was read, with the new entry, replaces
\* the log.  After the submission of a CV without text the request ends
\* (app.py:148); after a completed one the analysis is logged (app.py:221-228),
\* of which the overall score is kept; then comes the e-mail.
LogWrite(r) ==
  /\ requests[r].pc = "log_write"
  /\ LET local == requests[r]
         done == [local EXCEPT !.existing = <<>>, !.entry = NoRes, !.file = "none"]
     IN  /\ logs' = [logs EXCEPT ![local.file] = Append(local.existing, local.entry)]
         /\ requests' = [requests EXCEPT ![r] =
              IF local.file = "analysis" THEN [done EXCEPT !.pc = "send"]
              ELSE IF local.entry.status = "failed_parsing" THEN [done EXCEPT !.pc = "end"]
              ELSE [done EXCEPT
                      !.pc = "log_read", !.file = "analysis",
                      !.entry = [filename |-> local.filename,
                                 ats_score |-> local.screening.ats_score,
                                 job_category |-> local.job_category,
                                 overall_score |-> local.screening.detailed_analysis.overall_score]]]
  /\ UNCHANGED <<pc, op, arg, res, config, checker, agent, candidate_emails, threaded>>

\* a handler in which a sender that did not return True turns the decision
\* into a rejection
SendDecision_FailureRejects(r) ==
  /\ requests[r].pc = "send"
  /\ \E sent \in BOOLEAN :
       requests' = [requests EXCEPT ![r] =
         IF Truthy(@.final_email) /\ Contains(@.final_email, <<"@">>)
         THEN [@ EXCEPT
                 !.pc = "save", !.email_sent = sent,
                 !.screening = [@ EXCEPT !.passes_company_screening = @ /\ sent],
                 !.attempts = Append(@, [kind |-> IF requests[r].screening.passes_company_screening
                                                  THEN "send_recruitment_notification"
                                                  ELSE "send_rejection_notification",
                                         candidate_email |-> requests[r].final_email,
                                         company_scores |-> requests[r].screening.company_evaluation])]
         ELSE [@ EXCEPT !.pc = "save"]]
  /\ UNCHANGED <<pc, op, arg, res, config, checker, agent, candidate_emails, logs, threaded>>

\* the decision e-mail (app.py:230-291): with an address that holds "@" the
\* acceptance or the rejection is handed to its sender, which returns True,
\* returns False, or raises; email_sent stays False unless True came back
SendDecision(r) ==
  /\ requests[r].pc = "send"
  /\ \E sent \in BOOLEAN :
       requests' = [requests EXCEPT ![r] =
         IF Truthy(@.final_email) /\ Contains(@.final_email, <<"@">>)
         THEN [@ EXCEPT
                 !.pc = "save", !.email_sent = sent,
                 !.attempts = Append(@, [kind |-> IF requests[r].screening.passes_company_screening
                                                  THEN "send_recruitment_notification"
                                                  ELSE "send_rejection_notification",
                                         candidate_email |-> requests[r].final_email,
                                         company_scores |-> requests[r].screening.company_evaluation])]
         ELSE [@ EXCEPT !.pc = "save"]]
  /\ UNCHANGED <<pc, op, arg, res, config, checker, agent, candidate_emails, logs, threaded>>

\* save_complete_analysis_to_json and render_template (app.py:292-331): what
\* is saved and what is rendered are taken from the same locals
Render(r) ==
  /\ requests[r].pc = "save"
  /\ LET local == requests[r]
         outcome == [filename |-> local.filename,
                     user_email |-> local.final_email,
                     job_category |-> local.job_category,
                     ats_score |-> local.screening.ats_score,
                     passed_ats |-> local.screening.passed_ats,
                     company_evaluation |-> local.screening.company_evaluation,
                     passes_company_screening |-> local.screening.passes_company_screening,
                     email_sent |-> local.email_sent]
     IN  requests' = [requests EXCEPT ![r] =
           [local EXCEPT !.pc = "end", !.saved = outcome, !.results = outcome]]
  /\ UNCHANGED <<pc, op, arg, res, config, checker, agent, candidate_emails, logs, threaded>>

\* one step of one upload request
Upload ==
  \E r \in Requests :
    \/ ReceiveUpload(r)
    \/ StoreRead(r)
    \/ StoreWrite(r)
    \/ Screen(r)
    \/ LogRead(r)
    \/ LogWrite(r)
    \/ SendDecision(r)
    \/ Render(r)

\* the requests handled in threads, as app.run starts the server
SpecServer == Init /\ [][Upload]_vars

\* a server that takes the requests one after another
InitSequential ==
  /\ pc = "idle"
  /\ op = "none"
  /\ arg = NoRes
  /\ res = NoRes
  /\ config = [criteria_weights |-> ATS_CRITERIA_WEIGHTS,
               thresholds |-> ATS_THRESHOLDS,
               job_keywords |-> JOB_KEYWORDS,
               company_job_requirements |-> COMPANY_JOB_REQUIREMENTS]
  /\ checker = NoRes
  /\ agent = IntelligentATSAgent_init
  /\ candidate_emails = [emails |-> <<>>, total_emails |-> 0]
  /\ logs = [submissions |-> <<>>, analysis |-> <<>>]
  /\ requests = [r \in Requests |-> NewRequest]
  /\ threaded = FALSE

SpecSequential == InitSequential /\ [][Upload]_vars

\* any sequence of calls of the functions of the engine, on one ATSChecker
SpecEngine ==
  Init /\ [][EvaluateCompany \/ GetJobKeywords \/ GetCompanyJobRequirements
              \/ ATSCheckerInit \/ AnalyzeResume \/ AutoDetect \/ CheckAts
              \/ GetDetailedAnalysis \/ Return]_vars

Next ==
  \/ ATSCheckerInit
  \/ EvaluateCompany
  \/ CalculateOverall
  \/ AutoDetect
  \/ CheckAts
  \/ GetDetailedAnalysis
  \/ CheckKeywordMatching
  \/ AnalyzeResume
  \/ GetJobKeywords
  \/ GetCompanyJobRequirements
  \/ UploadFile
  \/ StoreCandidateEmail
  \/ Upload
  \/ Return

Spec == Init /\ [][Next]_vars

\* C1: the CompanyEvaluation has passes_criteria = TRUE exactly when its own
\* reported fields satisfy ats_compatibility >= minimum_ats_score of the
\* category's requirements, keyword_relevance >= 40 and final_score >= 60
\* (the two rounded fields are in tenths).
C1_PassesIffReportedFields ==
  Evaluated =>
    (res.passes_criteria <=>
       /\ res.ats_compatibility
            >= get_company_job_requirements(arg.job_category).minimum_ats_score
       /\ res.keyword_relevance >= 400
       /\ res.final_score >= 600)

\* C2: overall_score is the sum over the five configured criteria of
\* score * weight / 100 with the weights 25, 30, 20, 15, 10, rounded to one
\* decimal (a nearest tenth); an absent criterion contributes 0.
C2_OverallIsWeightedSum ==
  Aggregated =>
    LET s == arg.individual_scores
        Sc(c) == IF c \in DOMAIN s THEN s[c].score ELSE RInt(0)
        sum == RAdd(RScale(Sc("format_compatibility"), 25, 100),
               RAdd(RScale(Sc("keyword_matching"), 30, 100),
               RAdd(RScale(Sc("readability"), 20, 100),
               RAdd(RScale(Sc("structure_organization"), 15, 100),
                    RScale(Sc("contact_information"), 10, 100)))))
        diff == res.overall_score * sum.den - 10 * sum.num
    IN  /\ 2 * diff <= sum.den
        /\ -2 * diff <= sum.den

\* a call with one criterion absent, a fractional keyword score and a
\* positive result
C2_Witness ==
  /\ Aggregated
  /\ "format_compatibility" \notin DOMAIN arg.individual_scores
  /\ "keyword_matching" \in DOMAIN arg.individual_scores
  /\ arg.individual_scores["keyword_matching"].score.den > 1
  /\ "contact_information" \in DOMAIN arg.individual_scores
  /\ arg.individual_scores["contact_information"].score = RInt(70)
  /\ res.overall_score > 70

\* C3: the weights are validated to sum to 100 when the checker is
\* constructed, so no overall score is ever produced from a weight map that
\* does not sum to 100.
C3_NoScoreFromBadWeights ==
  Aggregated => WeightSum(checker.criteria_weights) = 100

\* C4: the rating follows from the returned overall_score (in tenths) by the
\* thresholds 85, 70, 55, 40.
C4_RatingFromReturnedScore ==
  Aggregated =>
    res.rating = IF res.overall_score >= 850 THEN "Excellent"
                 ELSE IF res.overall_score >= 700 THEN "Good"
                 ELSE IF res.overall_score >= 550 THEN "Average"
                 ELSE IF res.overall_score >= 400 THEN "Poor"
                 ELSE "Very Poor"

\* C5: for every text that is empty, or shorter than 50 characters once the
\* whitespace at its two ends is removed, check_ats returns 0 and
\* get_detailed_analysis returns overall_score 0 together with the
\* recommendation that the resume text is too short or empty.
C5_ShortTextScoresZero ==
  /\ (AtsChecked /\ Len(Strip(arg.text)) < 50) => res = 0
  /\ (DetailAnalyzed /\ Len(Strip(arg.text)) < 50) =>
       /\ res.overall_score = 0
       /\ \E i \in 1..Len(res.recommendations) :
            res.recommendations[i] = Msg("Resume text is too short or empty")

\* get_detailed_analysis has returned for a text of 50 characters or more
\* of which fewer than 50 are left after strip()
C5_Witness ==
  /\ DetailAnalyzed
  /\ Len(arg.text) >= 50
  /\ Len(Strip(arg.text)) < 50
  /\ res.overall_score = 0
  /\ Len(res.recommendations) = 1

\* C6: for a text that is empty or shorter than 50 characters after
\* trimming, analyze_resume yields score 0 for each of the five criteria, an
\* overall score of 0 and exactly one recommendation.
C6_ShortTextShortCircuits ==
  (Analyzed /\ Len(Strip(arg.parsed_resume.raw_text)) < 50) =>
    /\ \A c \in CriterionNames : res.detailed_analysis[c].score = RInt(0)
    /\ res.overall_analysis.overall_score = 0
    /\ Len(res.recommendations) = 1

\* the positions at which sub occurs in t
Occurrences(sub, t) == {i \in 1..Len(t) : OccursAt(sub, t, i)}

\* the largest number of occurrences of sub in t no two of which overlap
DisjointOccurrences(sub, t) ==
  LET sets == {S \in SUBSET Occurrences(sub, t) :
                 \A i, j \in S : i < j => i + Len(sub) <= j}
  IN  CHOOSE n \in 0..Len(t) :
        /\ \E S \in sets : Cardinality(S) = n
        /\ \A S \in sets : Cardinality(S) <= n

RECURSIVE TotalOccurrences(_, _)
\* occurrences in t of all the keywords, overlapping ones included
TotalOccurrences(keywords, t) ==
  IF keywords = <<>> THEN 0
  ELSE Cardinality(Occurrences(Lower(Head(keywords)), t))
         + TotalOccurrences(Tail(keywords), t)

RECURSIVE TotalDisjoint(_, _)
\* occurrences in t of all the keywords, overlapping ones of the same keyword
\* counted once
TotalDisjoint(keywords, t) ==
  IF keywords = <<>> THEN 0
  ELSE DisjointOccurrences(Lower(Head(keywords)), t)
         + TotalDisjoint(Tail(keywords), t)

\* C7 as stated: the mapping has one entry per taxonomy category, and each
\* score is the number of case-insensitive substring occurrences of the
\* category's keywords in the text.
C7_ScoreIsOccurrenceCount ==
  Detected =>
    /\ Len(res.scores) = Len(job_categories)
    /\ \A i \in 1..Len(job_categories) :
         /\ res.scores[i].name = job_categories[i].name
         /\ res.scores[i].score
              = TotalOccurrences(job_categories[i].keywords, Lower(arg.resume_text))

\* C7 amended: the mapping has one entry per taxonomy category, and each
\* score is the number of case-insensitive occurrences of the category's
\* keywords in the text, occurrences of one keyword that overlap each other
\* counted once (a keyword occurring n times apart contributes n).
C7_ScoreIsDisjointOccurrenceCount ==
  Detected =>
    /\ Len(res.scores) = Len(job_categories)
    /\ \A i \in 1..Len(job_categories) :
         /\ res.scores[i].name = job_categories[i].name
         /\ res.scores[i].score
              = TotalDisjoint(job_categories[i].keywords, Lower(arg.resume_text))

\* 'Portfolio' twice, in upper case: art and finance score 2 each
C7_Witness ==
  /\ Detected
  /\ arg.resume_text # Lower(arg.resume_text)
  /\ ScoreOf(res.scores, "art") = 2
  /\ ScoreOf(res.scores, "finance") = 2
  /\ ScoreOf(res.scores, "sales") = 0

\* the categories in the order the taxonomy declares them
DeclaredOrder ==
  <<"education", "art", "tech", "healthcare", "finance", "marketing", "sales">>

\* C8: the category returned holds the highest count, and among several
\* holding the highest non-zero count it is the one declared first.
C8_FirstDeclaredHighestWins ==
  Detected =>
    LET top == CHOOSE n \in {res.scores[i].score : i \in 1..Len(res.scores)} :
                 \A i \in 1..Len(res.scores) : res.scores[i].score <= n
        first == CHOOSE i \in 1..Len(DeclaredOrder) :
                   /\ ScoreOf(res.scores, DeclaredOrder[i]) = top
                   /\ \A j \in 1..(i - 1) : ScoreOf(res.scores, DeclaredOrder[j]) < top
    IN  top > 0 => res.category = DeclaredOrder[first]

\* art and finance share the highest count and art is returned
C8_Witness ==
  /\ Detected
  /\ ScoreOf(res.scores, "art") = ScoreOf(res.scores, "finance")
  /\ ScoreOf(res.scores, "art") > 0
  /\ \A i \in 1..Len(res.scores) : res.scores[i].score <= ScoreOf(res.scores, "art")
  /\ res.category = "art"

\* C9: 'general' is returned exactly when every category scores zero;
\* otherwise a taxonomy category with a score above zero is returned.
C9_GeneralIffAllZero ==
  Detected =>
    /\ res.category = "general"
         <=> \A i \in 1..Len(res.scores) : res.scores[i].score = 0
    /\ res.category # "general" =>
         /\ \E i \in 1..Len(job_categories) : job_categories[i].name = res.category
         /\ ScoreOf(res.scores, res.category) > 0

\* a text that is not empty and holds no keyword
C9_Witness ==
  /\ Detected
  /\ Len(arg.resume_text) > 0
  /\ res.category = "general"
  /\ \A i \in 1..Len(res.scores) : res.scores[i].score = 0

\* C10: check_keyword_matching takes the keyword list of the job category;
\* a keyword is in found_keywords if its lower-case form occurs somewhere in
\* the lower-cased raw_text and in missing_keywords if not; the score is
\* min(100, found / total * 100 * 1.2), and 0 when the list is empty.
C10_KeywordMatchingScore ==
  KeywordChecked =>
    LET text == Lower(arg.parsed_resume.raw_text)
        keywords == JobKeywordsOf(config.job_keywords, arg.job_category)
        total == Len(keywords)
        occurring == {i \in 1..total :
                        \E p \in 1..Len(text) : OccursAt(Lower(keywords[i]), text, p)}
        found == Cardinality(occurring)
    IN  /\ Len(res.found_keywords) + Len(res.missing_keywords) = total
        /\ \A i \in 1..total :
             /\ i \in occurring <=> InList(Lower(keywords[i]), res.found_keywords)
             /\ i \notin occurring <=> InList(Lower(keywords[i]), res.missing_keywords)
        /\ IF total = 0 THEN res.score = RInt(0)
           ELSE IF 120 * found >= 100 * total THEN res.score = RInt(100)
           ELSE res.score.num * total = res.score.den * 120 * found

\* a call where the factor 1.2 takes the score to the cap of 100 although a
\* keyword is missing, and where a keyword is found in another letter case
C10_Witness ==
  /\ KeywordChecked
  /\ res.score = RInt(100)
  /\ Len(res.missing_keywords) > 0
  /\ \E i \in 1..Len(res.found_keywords) :
       ~Contains(arg.parsed_resume.raw_text, res.found_keywords[i])

\* C11: with the keyword list fixed, a resume text that matches at least as
\* many keywords as another (a superset of its matches in particular) never
\* gets a lower keyword-matching score than the other.
C11_ScoreMonotoneInMatches ==
  KeywordChecked =>
    \A o \in KeywordOutcomes :
      o.keywords = JobKeywordsOf(config.job_keywords, arg.job_category) =>
        /\ o.found >= Len(res.found_keywords) => RGeq(o.score, res.score)
        /\ o.found <= Len(res.found_keywords) => RGeq(res.score, o.score)

\* a call that matches some keywords while another text matches more of the
\* same list and scores strictly higher
C11_Witness ==
  /\ KeywordChecked
  /\ Len(res.found_keywords) > 0
  /\ \E o \in KeywordOutcomes :
       /\ o.keywords = JobKeywordsOf(config.job_keywords, arg.job_category)
       /\ o.found > Len(res.found_keywords)
       /\ RLess(res.score, o.score)

\* the key of table that category names when letter case is ignored, if any
RecognisedIn(table, category) ==
  {i \in 1..Len(table) : Lower(table[i].name) = Lower(category)}

\* C12 as stated: both lookups return a value for every category string; a
\* recognised category is matched whatever its letter case; a category that
\* get_job_keywords does not recognise gets the generic keywords, and one that
\* get_company_job_requirements does not recognise gets the default set:
\* required keywords = the generic keywords, no preferred keywords,
\* minimum_experience 0, minimum_ats_score 60.
C12_UnrecognisedGetsGenericKeywords ==
  /\ JobKeywordsLooked =>
       /\ "value" \in DOMAIN res
       /\ \A i \in RecognisedIn(JOB_KEYWORDS, arg.job_category) :
            res.value = JOB_KEYWORDS[i].keywords
       /\ RecognisedIn(JOB_KEYWORDS, arg.job_category) = {} => res.value = general_keywords
  /\ RequirementsLooked =>
       /\ "value" \in DOMAIN res
       /\ \A i \in RecognisedIn(COMPANY_JOB_REQUIREMENTS, arg.job_category) :
            res.value = COMPANY_JOB_REQUIREMENTS[i]
       /\ RecognisedIn(COMPANY_JOB_REQUIREMENTS, arg.job_category) = {} =>
            /\ res.value.required_keywords = general_keywords
            /\ res.value.preferred_keywords = <<>>
            /\ res.value.minimum_experience = 0
            /\ res.value.minimum_ats_score = 60

\* C12, amended: as above, but the default requirement set takes as required
\* keywords what get_job_keywords returns for the category: the keyword list
\* of JOB_KEYWORDS when the category is one of its keys ('marketing' is, and
\* is not a key of COMPANY_JOB_REQUIREMENTS), the generic keywords otherwise.
C12_DefaultRequiresJobKeywords ==
  /\ JobKeywordsLooked =>
       /\ "value" \in DOMAIN res
       /\ \A i \in RecognisedIn(JOB_KEYWORDS, arg.job_category) :
            res.value = JOB_KEYWORDS[i].keywords
       /\ RecognisedIn(JOB_KEYWORDS, arg.job_category) = {} => res.value = general_keywords
  /\ RequirementsLooked =>
       /\ "value" \in DOMAIN res
       /\ \A i \in RecognisedIn(COMPANY_JOB_REQUIREMENTS, arg.job_category) :
            res.value = COMPANY_JOB_REQUIREMENTS[i]
       /\ RecognisedIn(COMPANY_JOB_REQUIREMENTS, arg.job_category) = {} =>
            /\ \A i \in RecognisedIn(JOB_KEYWORDS, arg.job_category) :
                 res.value.required_keywords = JOB_KEYWORDS[i].keywords
            /\ RecognisedIn(JOB_KEYWORDS, arg.job_category) = {} =>
                 res.value.required_keywords = general_keywords
            /\ res.value.preferred_keywords = <<>>
            /\ res.value.minimum_experience = 0
            /\ res.value.minimum_ats_score = 60

\* the requirements of a category written in capitals that only JOB_KEYWORDS
\* knows: the default set, requiring that category's own keywords
C12_Witness ==
  /\ RequirementsLooked
  /\ arg.job_category # Lower(arg.job_category)
  /\ RecognisedIn(COMPANY_JOB_REQUIREMENTS, arg.job_category) = {}
  /\ RecognisedIn(JOB_KEYWORDS, arg.job_category) # {}
  /\ res.value.required_keywords # general_keywords
  /\ res.value.minimum_ats_score = 60

\* one of the two terms of keyword_relevance: 0 when the list is empty
RelevanceTerm(found, total, points) ==
  IF total > 0 THEN Rat(found * points, total) ELSE RInt(0)

\* C13: keyword_relevance is (required_found / required_total) * 70 +
\* (preferred_found / preferred_total) * 30 rounded to one decimal, each term
\* being 0 when its own list is empty, so that preferred keywords count even
\* when no keyword is required.
C13_EachTermZeroOnItsOwn ==
  Evaluated =>
    res.keyword_relevance \in
      Round1(RAdd(RelevanceTerm(res.required_keywords_found,
                                res.required_keywords_total, 70),
                  RelevanceTerm(res.preferred_keywords_found,
                                res.preferred_keywords_total, 30)))

\* 0.30 a + 0.25 k + 0.20 x + 0.15 e + 0.10 s
HiringSum(a, k, x, e, s) ==
  RAdd(RAdd(RAdd(RAdd(RScale(a, 30, 100), RScale(k, 25, 100)), RScale(x, 20, 100)),
            RScale(e, 15, 100)), RScale(s, 10, 100))

C15_NeutralDefaultsAndSkillsProxy ==
  Evaluated =>
    /\ res.experience_level = 50
    /\ res.education_background = 50
    /\ res.skills_match = res.keyword_relevance

\* an evaluation of the highest ats score that passes the criteria with a
\* keyword relevance above 50: the two levels are 50 all the same
C15_Witness ==
  /\ Evaluated
  /\ arg.resume_data.ats_score = MaxScore
  /\ res.passes_criteria
  /\ res.keyword_relevance > 500
  /\ res.skills_match = res.keyword_relevance
  /\ res.experience_level = 50
  /\ res.education_background = 50

\* the words of a text: what str.split() returns, as a set
WordSet(text) ==
  { SubSeq(text, p[1], p[2]) :
      p \in { q \in (1..Len(text)) \X (1..Len(text)) :
                /\ q[1] <= q[2]
                /\ q[1] = 1 \/ text[q[1] - 1] \in SpaceChars
                /\ q[2] = Len(text) \/ text[q[2] + 1] \in SpaceChars
                /\ \A k \in q[1]..q[2] : text[k] \notin SpaceChars } }

\* C16: an uploaded resume whose text holds exactly the required keywords of
\* the software_engineer requirement set, screened for software_engineer, gets
\* an evaluation with required_keywords_found = required_keywords_total and
\* keyword_relevance >= 70.
C16_AllRequiredKeywordsFound ==
  (/\ Uploaded
   /\ Lower(arg.job_category) = COMPANY_JOB_REQUIREMENTS[1].name
   /\ WordSet(arg.resume_text)
        = {COMPANY_JOB_REQUIREMENTS[1].required_keywords[i]
             : i \in 1..Len(COMPANY_JOB_REQUIREMENTS[1].required_keywords)})
  => /\ res.company_evaluation.required_keywords_found
          = res.company_evaluation.required_keywords_total
     /\ res.company_evaluation.keyword_relevance >= 700

\* C17: a parsed resume with word_count 500, a bullet marker in its text, an
\* e-mail address and a phone number, and neither a table nor an image
\* marker, scores more than 70 on format, readability, structure and contact,
\* and its overall rating is Good or Excellent.
C17_WellFormedResumeRatesGood ==
  (/\ Analyzed
   /\ arg.parsed_resume.word_count = 500
   /\ \E i \in 1..Len(arg.parsed_resume.raw_text) :
        arg.parsed_resume.raw_text[i] \in bullet_indicators
   /\ Truthy(arg.parsed_resume.email)
   /\ Truthy(arg.parsed_resume.phone)
   /\ ~HasImageWord(arg.parsed_resume.raw_text)
   /\ ~HasBarPair(arg.parsed_resume.raw_text)
   /\ ~Contains(arg.parsed_resume.raw_text, <<"\t">>))
  => /\ RLess(RInt(70), res.detailed_analysis.format_compatibility.score)
     /\ RLess(RInt(70), res.detailed_analysis.readability.score)
     /\ RLess(RInt(70), res.detailed_analysis.structure_organization.score)
     /\ RLess(RInt(70), res.detailed_analysis.contact_information.score)
     /\ res.overall_analysis.rating \in {"Good", "Excellent"}

\* the strings of each rule of _generate_recommendations, the rules in the
\* order they are written: format, keyword, readability, structure, contact,
\* overall
RuleStrings == <<
  {"Use a simple, clean format without tables, text boxes, or images",
   "Stick to standard fonts like Arial, Calibri, or Times New Roman",
   "Avoid headers and footers that may not be parsed correctly"},
  {"Include relevant keywords: ",
   "Tailor your resume to include industry-specific terminology"},
  {"Use bullet points to organize information clearly",
   "Keep sentences concise and easy to read",
   "Aim for 300-800 words total"},
  {"Ensure contact information is clearly visible at the top",
   "Include a detailed work experience section",
   "Add a skills section with relevant technical and soft skills"},
  {"Include your full name, email, and phone number",
   "Use a professional email address",
   "Ensure contact information is at the top of the resume"},
  {"Consider a major revision focusing on ATS compatibility",
   "Your resume is good but could benefit from minor improvements"} >>

\* the rule a recommendation comes from
RuleOf(recommendation) ==
  CHOOSE r \in 1..Len(RuleStrings) : recommendation.text \in RuleStrings[r]

\* C18: the recommendations are at most 10 and keep the order of the rules
\* (format, keyword, readability, structure, contact, overall): no string of
\* an earlier rule comes after a string of a later rule.
C18_RecommendationsInRuleOrder ==
  Analyzed =>
    /\ Len(res.recommendations) <= 10
    /\ \A i \in 1..Len(res.recommendations) : \A j \in i..Len(res.recommendations) :
         RuleOf(res.recommendations[i]) <= RuleOf(res.recommendations[j])

\* the recommendations are never more than 10
RecommendationsAtMostTen == Analyzed => Len(res.recommendations) <= 10

\* whether a tenth is a one-decimal rounding of the sum 0.25 f + 0.30 k +
\* 0.20 r + 0.15 s + 0.10 c of the five criterion scores
ReproducesOverall(tenths, f, k, r, s, c) ==
  LET sum == RAdd(RScale(f, 25, 100),
             RAdd(RScale(k, 30, 100),
             RAdd(RScale(r, 20, 100),
             RAdd(RScale(s, 15, 100), RScale(c, 10, 100)))))
      diff == tenths * sum.den - 10 * sum.num
  IN  2 * diff <= sum.den /\ -2 * diff <= sum.den

\* C19: in every result that carries an overall_score and the five criterion
\* scores (get_detailed_analysis past its length check, analyze_resume), the
\* sum of criterion score * configured weight / 100 over the five criteria,
\* rounded to one decimal, is the overall_score reported.
C19_OverallReproducibleFromCriteria ==
  /\ (DetailAnalyzed /\ "format_compatibility" \in DOMAIN res) =>
       ReproducesOverall(res.overall_score,
                         RInt(res.format_compatibility.score),
                         RInt(res.keyword_matching.score),
                         RInt(res.readability.score),
                         RInt(res.structure_organization.score),
                         RInt(res.contact_information.score))
  /\ Analyzed =>
       ReproducesOverall(res.overall_analysis.overall_score,
                         res.detailed_analysis.format_compatibility.score,
                         res.detailed_analysis.keyword_matching.score,
                         res.detailed_analysis.readability.score,
                         res.detailed_analysis.structure_organization.score,
                         res.detailed_analysis.contact_information.score)

\* C20: a call of auto_detect_job_category returns what a further call on the
\* same text returns, and what it returns (every category's count and the
\* detected category) is what it returns with the keywords of each category
\* listed in another order.
C20_DetectionIdempotentOrderFree ==
  Detected =>
    /\ res = auto_detect_job_category(agent, arg.resume_text)
    /\ \A jc \in Taxonomies \ {agent.job_categories} :
         res = auto_detect_job_category([job_categories |-> jc], arg.resume_text)

\* a detection with the keyword lists in another order than written, on a
\* text in which the detected category counts two occurrences or more
C20_Witness ==
  /\ Detected
  /\ agent.job_categories # job_categories
  /\ res.category # "general"
  /\ ScoreOf(res.scores, res.category) >= 2

\* C21: any sequence of calls of check_ats, get_detailed_analysis,
\* ATSChecker.analyze_resume, auto_detect_job_category, get_job_keywords,
\* get_company_job_requirements and evaluate_company_hiring_criteria leaves the
\* keyword taxonomy, the criterion weights, the thresholds and the two job
\* tables as they were at process start, and what a call returned is what its
\* arguments alone give with those tables, whatever calls preceded it.
C21_CallsLeaveTablesAndDependOnArguments ==
  LET shipped == [criteria_weights |-> ATS_CRITERIA_WEIGHTS,
                  thresholds |-> ATS_THRESHOLDS,
                  job_keywords |-> JOB_KEYWORDS,
                  company_job_requirements |-> COMPANY_JOB_REQUIREMENTS]
      self == ATSChecker_init(shipped)
      results ==
        CASE op = "check_ats" -> {check_ats(arg.text)}
          [] op = "get_detailed_analysis" ->
               get_detailed_analysis(arg.text, arg.job_category)
          [] op = "analyze_resume" ->
               analyze_resume(self, shipped, arg.parsed_resume, arg.job_category)
          [] op = "auto_detect_job_category" ->
               {auto_detect_job_category(IntelligentATSAgent_init, arg.resume_text)}
          [] op = "get_job_keywords" ->
               {[value |-> get_job_keywords(arg.job_category)]}
          [] op = "get_company_job_requirements" ->
               {[value |-> get_company_job_requirements(arg.job_category)]}
          [] op = "evaluate_company_hiring_criteria" ->
               evaluate_company_hiring_criteria(arg.resume_data, arg.job_category)
  IN  /\ config = shipped
      /\ agent = IntelligentATSAgent_init
      /\ checker \in {NoRes, self}
      /\ pc = "done" => res \in results

\* an evaluation that passes, returned after the ATSChecker was constructed and
\* so after other steps of the engine
C21_Witness ==
  /\ Evaluated
  /\ checker # NoRes
  /\ res.passes_criteria
  /\ Lower(arg.job_category) = COMPANY_JOB_REQUIREMENTS[1].name

\* C22: for every parsed resume and job category, each of the five criterion
\* scorers of ATSChecker (format, keyword matching, readability, structure,
\* contact) returns a score that is a whole number from 0 to 100.
C22_ScorerScoresAreIntegers ==
  Analyzed =>
    \A c \in CriterionNames :
      LET score == res.detailed_analysis[c].score
      IN  score.den = 1 /\ 0 <= score.num /\ score.num <= 100

\* C23: for every ats_score in 0..100, every found_keywords list and every job
\* category, the fields ats_compatibility, keyword_relevance, experience_level,
\* education_background, skills_match and final_score of the CompanyEvaluation
\* lie in 0..100 (the three rounded ones are in tenths), and the found counts
\* lie between 0 and their totals.
C23_EvaluationFieldsInRange ==
  Evaluated =>
    /\ \A x \in {res.ats_compatibility, res.experience_level, res.education_background} :
         0 <= x /\ x <= 100
    /\ \A x \in {res.keyword_relevance, res.skills_match, res.final_score} :
         0 <= x /\ x <= 1000
    /\ 0 <= res.required_keywords_found
    /\ res.required_keywords_found <= res.required_keywords_total
    /\ 0 <= res.preferred_keywords_found
    /\ res.preferred_keywords_found <= res.preferred_keywords_total

\* the largest ats_score with required and preferred keywords found
C23_Witness ==
  /\ Evaluated
  /\ arg.resume_data.ats_score = 100
  /\ res.required_keywords_found = 10
  /\ res.preferred_keywords_found = 2
  /\ res.keyword_relevance = 575

\* C24: ATSChecker.check_format_compatibility returns 50 - P + B kept within
\* 0..100, where B adds the bonus of each field present (name, email, phone,
\* education, experience, skills) and P adds a penalty for each signal found in
\* the text: table markers, image or graphic markers, header or footer
\* markers, irregular line lengths, a high share of special characters.  A
\* signal that is present therefore never leaves P without its penalty.
C24_FormatScoreIsClampedSum ==
  Analyzed =>
    LET p == arg.parsed_resume
        lower == Lower(p.raw_text)
        B == (IF Truthy(p.name) THEN 15 ELSE 0) + (IF Truthy(p.email) THEN 15 ELSE 0)
             + (IF Truthy(p.phone) THEN 10 ELSE 0)
             + (IF Len(p.education) > 0 THEN 10 ELSE 0)
             + (IF Len(p.experience) > 0 THEN 15 ELSE 0)
             + (IF Len(p.skills) > 0 THEN 10 ELSE 0)
        marked == Contains(lower, <<"h","e","a","d","e","r">>)
                    \/ Contains(lower, <<"f","o","o","t","e","r">>)
        Clamp(x) == IF x > 100 THEN 100 ELSE IF x < 0 THEN 0 ELSE x
    IN  \E h \in 1..100 :
          res.detailed_analysis.format_compatibility.score =
            RInt(Clamp(50 - (SumPenalties(FormatIssues(p.raw_text))
                             + (IF marked THEN h ELSE 0)) + B))

\* C25: in the upload pipeline the ATS score the screening evaluator is given
\* is the overall score of the same document's detailed analysis:
\* company_evaluation.ats_compatibility equals detailed_analysis.overall_score
\* (which is kept in tenths).
C25_EvaluatorGetsOverallScore ==
  Uploaded =>
    10 * res.company_evaluation.ats_compatibility = res.detailed_analysis.overall_score

\* C26: in the upload pipeline, where the found_keywords the evaluator gets are
\* those of get_detailed_analysis, passes_criteria is true only for the job
\* category software_engineer in any letter case: for every resume text and
\* every other category string it is false.
C26_OnlySoftwareEngineerPasses ==
  (Uploaded /\ Lower(arg.job_category) # COMPANY_JOB_REQUIREMENTS[1].name)
    => /\ ~res.company_evaluation.passes_criteria
       /\ ~res.passes_company_screening

\* a data_scientist upload in which all fourteen keywords of the simple
\* checker are found and the ATS score is above the category's minimum
C26_Witness ==
  /\ Uploaded
  /\ Lower(arg.job_category) = COMPANY_JOB_REQUIREMENTS[2].name
  /\ Len(res.resume_data.found_keywords) = Len(KEYWORDS)
  /\ res.ats_score = 80
  /\ res.company_evaluation.minimum_ats_score = 70
  /\ ~res.company_evaluation.passes_criteria

\* the same text passes when it is screened for software_engineer
SoftwareEngineerUploadPasses ==
  /\ Uploaded
  /\ Lower(arg.job_category) = COMPANY_JOB_REQUIREMENTS[1].name
  /\ res.ats_score = 80
  /\ res.company_evaluation.passes_criteria

(***************************************************************************)
(* The e-mail store and the upload requests: what is checked             *)
(***************************************************************************)

\* C27: on a server that takes the uploads one after another, whenever no
\* upload is under way the submission_count of each record of the store is the
\* number of completed uploads whose auto-detected address is the record's.
C27_SubmissionCountIsUploads ==
  (\A r \in Requests : requests[r].pc \in {"new", "end"}) =>
    \A i \in 1..Len(candidate_emails.emails) :
      candidate_emails.emails[i].submission_count =
        Cardinality({r \in Requests :
                       /\ requests[r].pc = "end"
                       /\ requests[r].auto_detected_email = candidate_emails.emails[i].email})

\* C28: after any sequence of store_candidate_email calls made one after
\* another on an initialised store, no two records hold the same address when
\* the letter case is set aside, total_emails is the number of records, and a
\* call whose address is empty or is rejected by _is_valid_email (malformed, or
\* holding a placeholder domain) has returned False and left the store as it was.
C28_StoreKeepsOneRecordPerAddress ==
  LET emails == candidate_emails.emails
  IN  /\ \A i, j \in 1..Len(emails) :
           Lower(emails[i].email) = Lower(emails[j].email) => i = j
      /\ candidate_emails.total_emails = Len(emails)
      /\ (Stored /\ (arg.email = <<>> \/ ~is_valid_email(arg.email))) =>
           (res.value = FALSE /\ candidate_emails = res.before)

\* the placeholder address is refused after the address in capitals was counted
\* on the record of the same address in small letters
C28_Witness ==
  /\ Stored
  /\ arg.email = <<"x","@","t","e","s","t",".","c","o","m">>
  /\ res.value = FALSE
  /\ Len(candidate_emails.emails) = 1
  /\ candidate_emails.emails[1].email = <<"a","@","b",".","c","o">>
  /\ candidate_emails.emails[1].submission_count = 2
  /\ candidate_emails.emails[1].candidate_name = <<"B","e","a">>

\* C29: a request hands at most one decision e-mail to a sender: the acceptance
\* only if company_evaluation.passes_criteria is true, the rejection only if it
\* is false, none if the address chosen holds no "@"; and whatever the sender
\* returned, what is saved and rendered is the ats_score computed before the
\* e-mail, the company_evaluation that was computed and handed to the sender,
\* and the decision of that evaluation.
C29_OneDecisionEmailAndResultsKept ==
  \A r \in Requests :
    LET local == requests[r]
    IN  /\ Len(local.attempts) <= 1
        /\ \A i \in 1..Len(local.attempts) :
             /\ local.attempts[i].kind = "send_recruitment_notification"
                  => local.screening.company_evaluation.passes_criteria
             /\ local.attempts[i].kind = "send_rejection_notification"
                  => ~local.screening.company_evaluation.passes_criteria
             /\ Contains(local.attempts[i].candidate_email, <<"@">>)
        /\ (local.pc \in {"save", "end"} /\ ~Contains(local.final_email, <<"@">>))
             => local.attempts = <<>>
        /\ local.results # NoRes =>
             /\ local.saved = local.results
             /\ local.results.ats_score = local.screening.ats_score
             /\ local.results.passed_ats = (local.screening.ats_score >= 75)
             /\ \A i \in 1..Len(local.attempts) :
                  local.attempts[i].company_scores = local.results.company_evaluation
             /\ local.results.company_evaluation = local.screening.company_evaluation
             /\ local.results.passes_company_screening
                  = local.results.company_evaluation.passes_criteria

\* the first upload was accepted and its e-mail sent, the second was rejected
\* and its sender failed; both were rendered with the score computed
C29_Witness ==
  /\ requests[1].pc = "end" /\ requests[2].pc = "end"
  /\ Len(requests[1].attempts) = 1
  /\ requests[1].attempts[1].kind = "send_recruitment_notification"
  /\ requests[1].attempts[1].candidate_email = <<"j","a","n","e",".","d","o","e","@","m","a","i","l",".","c","o","m">>
  /\ requests[1].results.email_sent
  /\ requests[1].results.passes_company_screening
  /\ Len(requests[2].attempts) = 1
  /\ requests[2].attempts[1].kind = "send_rejection_notification"
  /\ requests[2].attempts[1].candidate_email = <<"m","e","@","p","o","s","t",".","n","e","t">>
  /\ ~requests[2].results.email_sent
  /\ requests[2].results.ats_score = 80
  /\ ~requests[2].results.passes_company_screening

\* C30: on the threaded server, when all the uploads have been analysed and
\* rendered, the submissions log holds the submission of each of them, and the
\* store has counted every call of store_candidate_email that returned True:
\* two for each upload with an auto-detected address.
C30_NoWriteIsLost ==
  (\A r \in Requests : requests[r].pc = "end" /\ requests[r].results # NoRes) =>
    /\ \A r \in Requests :
         \E i \in 1..Len(logs.submissions) : logs.submissions[i].filename = r
    /\ TotalSubmissions(candidate_emails.emails) =
         2 * Cardinality({r \in Requests : Truthy(requests[r].auto_detected_email)})

====
